---- MODULE Spec2Model ----
(***************************************************************************)
(* EdgeSoul backend: the memory store (user profiles, emotional patterns,  *)
(* conversation contexts, memories) and the intelligent reply engine that  *)
(* classifies a message, routes it to a strategy handler, adapts the reply *)
(* and writes the store.                                                   *)
(*                                                                         *)
(* Text is modelled by real strings: substring tests, lower(), strip() and *)
(* split() are computed character by character.  Floats are modelled by    *)
(* exact fractions <<numerator, denominator>>: a confidence of 0.88 is     *)
(* <<22, 25>>.                                                             *)
(* datetime.now() is the logical clock `now`, which every operation that   *)
(* reads the time advances.                                                *)
(***************************************************************************)
EXTENDS Integers, Sequences, FiniteSets, TLC

(***************************************************************************)
(* Bounds of the model                                                     *)
(***************************************************************************)
\* operations of the profile specification
MaxProfileOps == 4
\* operations of the emotion-tracking specification
MaxTrackOps == 4
\* operations of the conversation-context specification
MaxContextOps == 12
\* operations on the second user in the conversation-context specification
MaxOtherUserOps == 1
\* chat requests of the reply-engine specification
MaxChatOps == 1
\* store operations made around the chat requests
MaxSetupOps == 2

Users == {"u1", "u2"}
\* the users of the chat requests: a request without a session is "default"
ChatUsers == {"default", "u1"}

\* Python's None where a string is expected
None == "<None>"

(***************************************************************************)
(* Inputs                                                                  *)
(***************************************************************************)
\* updates given to memory_service.update_profile
ProfileUpdates ==
    { [empathy_level |-> 90],
      [humor_level |-> 95, gender |-> "female"] }

\* JSON bodies sent to PUT /profile/{user_id}
ProfileBodies ==
    { [personality |-> [empathy_level |-> 85, verbosity_level |-> 15]],
      [empathy_level |-> 150],
      [preferences |-> {<<"theme", "dark">>}, nickname |-> "sam"] }

\* messages given to learn_preference
PreferenceMessages ==
    { "Keep it short please", "I love jokes", "no emojis",
      "I'm interested in astronomy" }

\* arguments of track_emotion
TrackedEmotions == {"joy", "sadness"}
\* intensities, in percent: the floats 70.0, 90.0 and 85.0 as <<numerator, denominator>>
TrackedIntensities == {<<70, 1>>, <<90, 1>>, <<85, 1>>}
TrackedContexts == {None, "Exams make me nervous, exams again"}

\* <<session_id, message, response, emotion>>
ContextArgs ==
    { <<"s1", "I feel anxious about my exams", "That sounds stressful.", "fear">>,
      <<"s2", "ok", "Got it!", None>> }

\* <<session_id, message, response, emotion>> of a conversation with many topics
TopicArgs ==
    { <<"s1", "I put roses, tulips, daisies and orchids in my garden", "Lovely!", "joy">>,
      <<"s1", "we saw lions, zebras, giraffes and hippos on the safari", "Wow!",
        "surprise">>,
      <<"s1", "he has a piano, violin, guitar, drums and flute", "Nice.", "joy">>,
      <<"s2", "she ate mango, papaya, cherry, banana and grapes", "Got it!", None>> }

\* contexts of track_emotion with many keywords: the messages of TopicArgs
TriggerContexts == TrackedContexts \cup {a[2] : a \in TopicArgs}

\* the JSON body sent to PUT /profile/{user_id} before the chat requests
ChatProfileBodies ==
    { [personality |-> [verbosity_level |-> 15, proactiveness_level |-> 70],
       gender |-> "female", emoji_usage |-> FALSE] }

\* messages sent to the chat endpoints
ChatMessages ==
    { "", " ", "hello", "What is Python?", "How to answer job interview questions",
      "I feel so sad and hopeless today", "I am excited to learn about black holes",
      "no emojis please, tell me a joke" }

\* answers streamed by the generation backend
Answers ==
    { "Assistant: Python is a language. It is easy to read. Many people use it. @",
      "As an AI language model, I can tell you many things." }

\* the store call of a request that raises, if one does
StoreFaults ==
    { "none", "get_or_create_profile", "get_context_summary", "handler_profile",
      "handler_context", "track_emotion", "update_conversation_context",
      "learn_preference" }

\* the index the random choices of a request draw
Picks == {0, 1}

\* every text an operation is given
Texts ==
    PreferenceMessages \cup (TrackedContexts \ {None}) \cup {a[2] : a \in ContextArgs}
        \cup ChatMessages
        \cup {a[2] : a \in TopicArgs}

(***************************************************************************)
(* Strings                                                                 *)
(***************************************************************************)
\* Python: p in s
Contains(s, p) ==
    \E i \in 1..(Len(s) - Len(p) + 1) : SubSeq(s, i, i + Len(p) - 1) = p

\* Python: any(p in s for p in patterns)
ContainsAny(s, patterns) == \E p \in patterns : Contains(s, p)

\* Python: s.startswith(p)
StartsWith(s, p) == Len(s) >= Len(p) /\ SubSeq(s, 1, Len(p)) = p

\* Python: s.endswith(p)
EndsWith(s, p) == Len(s) >= Len(p) /\ SubSeq(s, Len(s) - Len(p) + 1, Len(s)) = p

UpperCaseLetters == "ABCDEFGHIJKLMNOPQRSTUVWXYZ"
LowerCaseLetters == "abcdefghijklmnopqrstuvwxyz"
Digits == "0123456789"

LowerChar(c) ==
    IF Contains(UpperCaseLetters, c)
    THEN LET i == CHOOSE k \in 1..26 : SubSeq(UpperCaseLetters, k, k) = c
         IN  SubSeq(LowerCaseLetters, i, i)
    ELSE c

\* s[i..j] in lower case, by halves
RECURSIVE LowerFrom(_, _, _)
LowerFrom(s, i, j) ==
    IF i > j THEN ""
    ELSE IF i = j THEN LowerChar(SubSeq(s, i, i))
    ELSE LET mid == (i + j) \div 2
         IN  LowerFrom(s, i, mid) \o LowerFrom(s, mid + 1, j)

\* Python: s.lower()
Lower(s) == LowerFrom(s, 1, Len(s))

IsSpace(c) == c \in {" ", "\t", "\n"}

RECURSIVE LStrip(_)
LStrip(s) ==
    IF Len(s) > 0 /\ IsSpace(SubSeq(s, 1, 1)) THEN LStrip(SubSeq(s, 2, Len(s))) ELSE s

RECURSIVE RStrip(_)
RStrip(s) ==
    IF Len(s) > 0 /\ IsSpace(SubSeq(s, Len(s), Len(s)))
    THEN RStrip(SubSeq(s, 1, Len(s) - 1)) ELSE s

\* Python: s.strip()
Strip(s) == LStrip(RStrip(s))

\* Python: len(s.split()): the number of maximal runs of non-space characters
WordCount(s) ==
    Cardinality({i \in 1..Len(s) :
        /\ ~IsSpace(SubSeq(s, i, i))
        /\ (i = 1 \/ IsSpace(SubSeq(s, i - 1, i - 1)))})

\* Python regex \w on lower-cased ASCII text
IsWordChar(c) == Len(c) = 1 /\ Contains(LowerCaseLetters \o Digits \o "_", c)

RECURSIVE FindWordsFrom(_, _, _, _)
FindWordsFrom(s, i, cur, acc) ==
    IF i > Len(s)
    THEN IF cur = "" THEN acc ELSE Append(acc, cur)
    ELSE LET c == SubSeq(s, i, i)
         IN  IF IsWordChar(c)
             THEN FindWordsFrom(s, i + 1, cur \o c, acc)
             ELSE FindWordsFrom(s, i + 1, "", IF cur = "" THEN acc ELSE Append(acc, cur))

\* Python: re.findall(r'\b\w+\b', s)
FindWords(s) == FindWordsFrom(s, 1, "", <<>>)

\* Python: s.find(p), from 1, for a p that s contains
Find(s, p) ==
    CHOOSE i \in 1..(Len(s) - Len(p) + 1) :
        /\ SubSeq(s, i, i + Len(p) - 1) = p
        /\ \A j \in 1..(i - 1) : SubSeq(s, j, j + Len(p) - 1) # p

\* Python: s.rfind(p), from 1, for a p that s contains
RFind(s, p) ==
    CHOOSE i \in 1..(Len(s) - Len(p) + 1) :
        /\ SubSeq(s, i, i + Len(p) - 1) = p
        /\ \A j \in (i + 1)..(Len(s) - Len(p) + 1) : SubSeq(s, j, j + Len(p) - 1) # p

\* Python: s.replace(old, new) for a non-empty old
RECURSIVE Replace(_, _, _)
Replace(s, old, new) ==
    IF ~Contains(s, old) THEN s
    ELSE LET i == Find(s, old)
         IN  SubSeq(s, 1, i - 1) \o new
                 \o Replace(SubSeq(s, i + Len(old), Len(s)), old, new)

\* Python: s.split(sep)[0] and s.split(sep)[-1]
BeforeFirst(s, sep) == IF Contains(s, sep) THEN SubSeq(s, 1, Find(s, sep) - 1) ELSE s
AfterLast(s, sep) ==
    IF Contains(s, sep) THEN SubSeq(s, RFind(s, sep) + Len(sep), Len(s)) ELSE s

\* Python: s.split(sep, 1)[1], for an s that holds sep
AfterFirst(s, sep) == SubSeq(s, Find(s, sep) + Len(sep), Len(s))

\* Python: s[:n]
Left(s, n) == SubSeq(s, 1, IF Len(s) < n THEN Len(s) ELSE n)

\* sequences
SeqContains(q, x) == \E i \in 1..Len(q) : q[i] = x
Prefix(q, n) == SubSeq(q, 1, IF Len(q) < n THEN Len(q) ELSE n)
Suffix(q, n) == SubSeq(q, IF Len(q) > n THEN Len(q) - n + 1 ELSE 1, Len(q))


Min(a, b) == IF a < b THEN a ELSE b
Max(a, b) == IF a > b THEN a ELSE b

(***************************************************************************)
(* Exact fractions for Python floats                                       *)
(***************************************************************************)
RECURSIVE Gcd(_, _)
Gcd(a, b) == IF b = 0 THEN a ELSE Gcd(b, a % b)

Frac(n, d) == LET g == Gcd(n, d) IN IF g = 0 THEN <<0, 1>> ELSE <<n \div g, d \div g>>

\* comparisons, sums and products of exact fractions
FracLess(a, b) == a[1] * b[2] < b[1] * a[2]
FracAdd(a, b) == Frac(a[1] * b[2] + b[1] * a[2], a[2] * b[2])
FracMul(a, b) == Frac(a[1] * b[1], a[2] * b[2])
FracDiv(a, n) == Frac(a[1], a[2] * n)
FracMax(a, b) == IF FracLess(a, b) THEN b ELSE a

RECURSIVE FracSum(_)
FracSum(q) == IF q = <<>> THEN Frac(0, 1) ELSE FracAdd(Head(q), FracSum(Tail(q)))

(***************************************************************************)
(* Data model (models/memory.py, database/models.py)                       *)
(***************************************************************************)
\* DBUserProfile(user_id=...): the column defaults
DBUserProfile(user_id, t) ==
    [ user_id |-> user_id,
      name |-> None,
      gender |-> "not_set",
      empathy_level |-> 75,
      humor_level |-> 50,
      formality_level |-> 40,
      verbosity_level |-> 60,
      proactiveness_level |-> 50,
      preferred_tone |-> "friendly",
      response_style |-> "balanced",
      emoji_usage |-> TRUE,
      voice_enabled |-> TRUE,
      voice_speed |-> Frac(1, 1),
      voice_pitch |-> Frac(1, 1),
      auto_speak_responses |-> FALSE,
      interests |-> <<>>,
      dislikes |-> <<>>,
      communication_patterns |-> {},
      total_conversations |-> 0,
      total_messages |-> 0,
      avg_session_length |-> Frac(0, 1),
      created_at |-> t,
      updated_at |-> t ]

ProfileFields == DOMAIN DBUserProfile("u", 0)

PersonalityLevels ==
    {"empathy_level", "humor_level", "formality_level", "verbosity_level",
     "proactiveness_level"}

\* EmotionalPattern(user_id=..., emotion=...): the field defaults
EmotionalPattern(user_id, emotion) ==
    [ user_id |-> user_id,
      emotion |-> emotion,
      frequency |-> 0,
      avg_intensity |-> Frac(0, 1),
      triggers |-> <<>>,
      time_patterns |-> [slot \in {} |-> 0],
      last_occurrence |-> None,
      trend |-> "stable" ]

\* ConversationContext(user_id=..., session_id=...): the field defaults
ConversationContext(user_id, session_id, t) ==
    [ user_id |-> user_id,
      session_id |-> session_id,
      messages |-> <<>>,
      topics |-> <<>>,
      current_emotion |-> None,
      emotion_trajectory |-> <<>>,
      started_at |-> t,
      last_activity |-> t ]

\* Memory(...) as add_memory builds it
Memory(user_id, memory_type, content, context, confidence, importance, t) ==
    [ id |-> <<user_id, t>>,
      user_id |-> user_id,
      memory_type |-> memory_type,
      content |-> content,
      context |-> context,
      confidence |-> confidence,
      importance |-> importance,
      created_at |-> t,
      last_accessed |-> t,
      access_count |-> 0 ]

(***************************************************************************)
(* State                                                                   *)
(***************************************************************************)
VARIABLES
    now,                    \* the clock read by datetime.now()
    user_profiles,          \* table user_profiles: a set of rows
    emotional_patterns,     \* table emotional_patterns: a set of rows
    conversation_contexts,  \* table conversation_contexts: a set of rows
    memories,               \* table memories: a set of rows
    last,                   \* the last operation: its name, user, arguments, outcome
    track_history,          \* history: the intensities tracked per (user, emotion)
    other_ops,              \* history: operations made for users other than u1
    is_available,           \* knowledge_engine.is_available
    conversation_memory,    \* intelligent_reply_engine.conversation_memory
    reply,                  \* what the last generate_reply call returned
    http_response,          \* what the last chat request was answered with
    generation_calls,       \* history: generation requests sent in the last request
    requests,               \* history: the chat requests made
    in_flight               \* per server process: the store call it is in the middle of

store == <<user_profiles, emotional_patterns, conversation_contexts, memories>>
engine == <<is_available, conversation_memory, reply, http_response, generation_calls,
            requests>>
vars == <<now, user_profiles, emotional_patterns, conversation_contexts, memories,
          last, track_history, other_ops, is_available, conversation_memory, reply,
          http_response, generation_calls, requests, in_flight>>

\* the server processes that share the database file: main.py and app.py
Servers == {"main", "app"}

\* a server process that is in no store call; returned counts the calls of
\* update_conversation_context it has returned from
Idle(returned) == [pc |-> "idle", returned |-> returned]

\* no generate_reply call was made, no request was answered
NoReply == [strategy |-> None]
NoResponse == [path |-> None, status |-> 0]

\* session.query(DBUserProfile).filter(user_id == u)
ProfileRows(u) == {r \in user_profiles : r.user_id = u}
PatternRows(u, e) == {r \in emotional_patterns : r.user_id = u /\ r.emotion = e}
ContextRows(u) == {r \in conversation_contexts : r.user_id = u}

\* .first() on a query that the unique index keeps to at most one row
First(rows) == CHOOSE r \in rows : TRUE

Init ==
    /\ now = 0
    /\ user_profiles = {}
    /\ emotional_patterns = {}
    /\ conversation_contexts = {}
    /\ memories = {}
    /\ last = [op |-> "init", user |-> None, raised |-> FALSE, args |-> <<>>]
    /\ track_history = [u \in Users \cup ChatUsers |-> [e \in {} |-> <<>>]]
    /\ other_ops = 0
    /\ is_available = FALSE
    /\ conversation_memory = [u \in {} |-> [message_count |-> 0]]
    /\ reply = NoReply
    /\ http_response = NoResponse
    /\ generation_calls = 0
    /\ requests = 0
    /\ in_flight = [server \in Servers |-> Idle(0)]

Done(op, u, raised, args) == [op |-> op, user |-> u, raised |-> raised, args |-> args]

\* the second user only takes a bounded number of operations
Budget(u) == u = "u1" \/ other_ops < MaxOtherUserOps
Spend(u) == other_ops' = IF u = "u1" THEN other_ops ELSE other_ops + 1

(***************************************************************************)
(* memory_service._extract_keywords                                        *)
(***************************************************************************)
stopwords ==
    {"the", "is", "at", "which", "on", "a", "an", "and", "or", "but", "in",
     "with", "to", "for", "of", "as", "i", "you", "my", "me"}

\* the shortest word _extract_keywords keeps has more than this many characters
MinKeywordLen == 3
\* max_keywords, the default of _extract_keywords
max_keywords == 5

Count(q, w) == Cardinality({i \in 1..Len(q) : q[i] = w})

\* the keys of a Counter, in the order of first insertion
RECURSIVE CounterKeys(_, _)
CounterKeys(q, acc) ==
    IF q = <<>> THEN acc
    ELSE CounterKeys(Tail(q), IF SeqContains(acc, Head(q)) THEN acc ELSE Append(acc, Head(q)))

\* Counter(q).most_common(n): by count, ties in the order of first insertion
most_common(q, n) ==
    LET d == CounterKeys(q, <<>>)
        Rank(i) == Cardinality({j \in 1..Len(d) :
                        \/ Count(q, d[j]) > Count(q, d[i])
                        \/ Count(q, d[j]) = Count(q, d[i]) /\ j < i})
        sorted == [k \in 1..Len(d) |-> d[CHOOSE i \in 1..Len(d) : Rank(i) = k - 1]]
    IN  Prefix(sorted, n)

_extract_keywords(text) ==
    LET words == FindWords(Lower(text))
        keywords == SelectSeq(words, LAMBDA w : Len(w) > MinKeywordLen /\ w \notin stopwords)
    IN  most_common(keywords, max_keywords)

\* _extract_keywords of every text, computed once
ExtractedKeywords == [text \in Texts |-> _extract_keywords(text)]

(***************************************************************************)
(* User profile: repository and memory_service                             *)
(***************************************************************************)
\* variant: the fields the update does not name go back to their defaults
replace_user_profile(db_profile, updates, t) ==
    [f \in DOMAIN db_profile |->
        IF f = "updated_at" THEN t
        ELSE IF f \in DOMAIN updates THEN updates[f]
        ELSE DBUserProfile(db_profile.user_id, db_profile.created_at)[f]]

\* repository.update_user_profile, on the row found: setattr for each key the
\* row has, then updated_at
update_user_profile(db_profile, updates, t) ==
    [f \in DOMAIN db_profile |->
        IF f = "updated_at" THEN t
        ELSE IF f \in DOMAIN updates THEN updates[f]
        ELSE db_profile[f]]

\* memory_service.get_or_create_profile on the table given
get_or_create_profile(profiles, u, t) ==
    IF {r \in profiles : r.user_id = u} = {}
    THEN profiles \cup {DBUserProfile(u, t)}
    ELSE profiles

GetOrCreateProfile(u) ==
    /\ Budget(u)
    /\ user_profiles' = get_or_create_profile(user_profiles, u, now)
    /\ now' = IF ProfileRows(u) = {} THEN now + 1 ELSE now
    /\ last' = Done("get_or_create_profile", u, FALSE, <<>>)
    /\ Spend(u)
    /\ UNCHANGED <<emotional_patterns, conversation_contexts, memories, track_history>>
    /\ UNCHANGED <<engine, in_flight>>

\* memory_service.update_profile -> repository.update_user_profile
\* (ValueError when the user has no profile)
DoUpdateProfile(op, u, updates) ==
    /\ IF ProfileRows(u) = {}
       THEN /\ last' = Done(op, u, TRUE, updates)
            /\ UNCHANGED <<user_profiles, now>>
       ELSE /\ user_profiles' = (user_profiles \ ProfileRows(u))
                   \cup {update_user_profile(First(ProfileRows(u)), updates, now)}
            /\ now' = now + 1
            /\ last' = Done(op, u, FALSE, updates)
    /\ UNCHANGED <<emotional_patterns, conversation_contexts, memories, track_history>>
    /\ UNCHANGED <<engine, in_flight>>

UpdateProfile(u, updates) ==
    /\ Budget(u)
    /\ DoUpdateProfile("update_profile", u, updates)
    /\ Spend(u)

\* api/v1/memory.py update_user_profile: the nested 'personality' object is
\* flattened to the root and 'preferences' is stored as communication_patterns
FlattenUpdates(body) ==
    LET personality == IF "personality" \in DOMAIN body THEN body.personality
                       ELSE [k \in {} |-> 0]
        flat == [k \in (DOMAIN body \ {"personality"}) \cup DOMAIN personality |->
                    IF k \in DOMAIN personality THEN personality[k] ELSE body[k]]
    IN  IF "preferences" \in DOMAIN flat
        THEN [k \in (DOMAIN flat \ {"preferences"}) \cup {"communication_patterns"} |->
                 IF k = "communication_patterns" THEN flat.preferences ELSE flat[k]]
        ELSE flat

UpdateProfileEndpoint(u, body) ==
    /\ Budget(u)
    /\ DoUpdateProfile("PUT /profile", u, FlattenUpdates(body))
    /\ Spend(u)

(***************************************************************************)
(* memory_service.learn_preference                                         *)
(***************************************************************************)
\* One entry per regular expression of preference_patterns, in the order of
\* the dict: `alts` are the literal texts the expression matches and `rest`
\* says that it ends in the group (.+)
preference_patterns ==
    << [alts |-> {"i " \o a \o " " \o b \o " " \o c :
                     a \in {"like", "prefer", "enjoy"},
                     b \in {"detailed", "brief", "short", "long"},
                     c \in {"answers", "responses", "explanations"}},
        rest |-> FALSE, pref_type |-> "verbosity", action |-> "preference"],
       [alts |-> {"keep it brief", "keep it short", "keep it concise"},
        rest |-> FALSE, pref_type |-> "verbosity", action |-> "low"],
       [alts |-> {"give me more details", "give me more information"},
        rest |-> FALSE, pref_type |-> "verbosity", action |-> "high"],
       [alts |-> {"be more formal", "be more professional"},
        rest |-> FALSE, pref_type |-> "formality", action |-> "high"],
       [alts |-> {"you can be casual", "you can be informal"},
        rest |-> FALSE, pref_type |-> "formality", action |-> "low"],
       [alts |-> {"don't be so formal", "don't be so serious",
                  "dont be so formal", "dont be so serious"},
        rest |-> FALSE, pref_type |-> "formality", action |-> "low"],
       [alts |-> {"i " \o a \o " " \o b :
                     a \in {"love", "like", "enjoy"}, b \in {"jokes", "humor", "funny"}},
        rest |-> FALSE, pref_type |-> "humor", action |-> "high"],
       [alts |-> {"less jokes", "fewer jokes"},
        rest |-> FALSE, pref_type |-> "humor", action |-> "low"],
       [alts |-> {"stop using emojis", "no emojis"},
        rest |-> FALSE, pref_type |-> "emoji_usage", action |-> FALSE],
       [alts |-> {"i like emojis"},
        rest |-> FALSE, pref_type |-> "emoji_usage", action |-> TRUE],
       [alts |-> {"i'm interested in ", "im interested in "},
        rest |-> TRUE, pref_type |-> "interest", action |-> "extract"],
       [alts |-> {"i love ", "i like ", "i enjoy "},
        rest |-> TRUE, pref_type |-> "interest", action |-> "extract"],
       [alts |-> {"i don't like ", "i dont like "},
        rest |-> TRUE, pref_type |-> "dislike", action |-> "extract"] >>

\* the positions where re.search can match the pattern p in s
MatchPositions(s, p) ==
    {i \in 1..Len(s) : \E a \in p.alts :
        /\ i + Len(a) - 1 <= Len(s)
        /\ SubSeq(s, i, i + Len(a) - 1) = a
        /\ (p.rest => i + Len(a) <= Len(s))}

\* match.group(match.lastindex).strip() of the leftmost match
Extracted(s, p) ==
    LET i == CHOOSE k \in MatchPositions(s, p) : \A j \in MatchPositions(s, p) : k <= j
        a == CHOOSE x \in p.alts :
                i + Len(x) - 1 <= Len(s) /\ SubSeq(s, i, i + Len(x) - 1) = x
    IN  Strip(SubSeq(s, i + Len(a), Len(s)))

\* str(action) in the f-string of the memory's content
ActionText(p) ==
    IF p.pref_type = "emoji_usage" THEN (IF p.action THEN "True" ELSE "False")
    ELSE p.action

PreferenceContent(s, p) ==
    IF p.pref_type # "emoji_usage" /\ p.action = "extract" /\ p.rest
    THEN "User " \o p.pref_type \o ": " \o Extracted(s, p)
    ELSE "User prefers " \o p.pref_type \o ": " \o ActionText(p)

\* the index of the first pattern that matches, 0 when none does
FirstPreference(s) ==
    LET hits == {k \in 1..Len(preference_patterns) :
                    MatchPositions(s, preference_patterns[k]) # {}}
    IN  IF hits = {} THEN 0 ELSE CHOOSE k \in hits : \A j \in hits : k <= j

\* for every text: the first pattern that matches its lower case and the
\* content of the memory learned from it, computed once
MatchedPreference ==
    [text \in Texts |->
        LET message_lower == Lower(text)
            k == FirstPreference(message_lower)
        IN  [k |-> k,
             content |-> IF k = 0 THEN ""
                         ELSE PreferenceContent(message_lower, preference_patterns[k])]]

\* how far one learned preference moves a level
PreferenceStep == 20
MinLevel == 0
MaxLevel == 100

\* memory_service._apply_preference_to_profile: the `updates` dict it builds.
\* An interest or a dislike is appended to the profile object in hand only,
\* which no call saves.
_apply_preference_to_profile(profile, pref_type, value) ==
    LET level == pref_type \o "_level"
    IN  IF pref_type \in {"verbosity", "formality", "humor"}
        THEN IF value = "high"
             THEN [k \in {level} |-> Min(profile[level] + PreferenceStep, MaxLevel)]
             ELSE IF value = "low"
             THEN [k \in {level} |-> Max(profile[level] - PreferenceStep, MinLevel)]
             ELSE [k \in {} |-> 0]
        ELSE IF pref_type = "emoji_usage"
        THEN [k \in {"emoji_usage"} |-> value]
        ELSE [k \in {} |-> 0]

\* confidence and importance of a learned preference, in percent
PreferenceConfidence == 80
PreferenceImportance == 70

\* memory_service.learn_preference on the tables given: add_memory (the memory
\* row refers to the user's profile row, so the insert raises for a user
\* without a profile, and a memory id is unique), then
\* _apply_preference_to_profile.  The result is the outcome and the tables.
learn_preference(profiles, mems, u, message, t) ==
    LET k == MatchedPreference[message].k
        p == preference_patterns[k]
        memory == Memory(u, "preference", MatchedPreference[message].content, message,
                         PreferenceConfidence, PreferenceImportance, t)
        rows == {r \in profiles : r.user_id = u}
        profile == First(rows)
        updates == _apply_preference_to_profile(profile, p.pref_type, p.action)
    IN  IF k = 0
        THEN [raised |-> FALSE, learned |-> FALSE, user_profiles |-> profiles,
              memories |-> mems]
        ELSE IF rows = {} \/ \E m \in mems : m.id = memory.id
        THEN [raised |-> TRUE, learned |-> FALSE, user_profiles |-> profiles,
              memories |-> mems]
        ELSE [raised |-> FALSE, learned |-> TRUE,
              user_profiles |->
                  IF DOMAIN updates = {} THEN profiles
                  ELSE (profiles \ rows) \cup {update_user_profile(profile, updates, t)},
              memories |-> mems \cup {memory}]

LearnPreference(u, message) ==
    LET result == learn_preference(user_profiles, memories, u, message, now)
    IN  /\ Budget(u)
        /\ user_profiles' = result.user_profiles
        /\ memories' = result.memories
        /\ now' = IF result.learned THEN now + 1 ELSE now
        /\ last' = Done("learn_preference", u, result.raised, message)
        /\ Spend(u)
        /\ UNCHANGED <<emotional_patterns, conversation_contexts, track_history>>
        /\ UNCHANGED <<engine, in_flight>>

(***************************************************************************)
(* memory_service.track_emotion                                            *)
(***************************************************************************)
\* the most triggers a pattern keeps
MaxTriggers == 10
\* clock readings per hour of the day
TicksPerHour == 2
HoursPerDay == 24

\* f"{hour:02d}:00" for datetime.now().hour
TimeSlot(t) ==
    LET hour == (t \div TicksPerHour) % HoursPerDay
    IN  SubSeq(Digits, hour \div 10 + 1, hour \div 10 + 1)
            \o SubSeq(Digits, (hour % 10) + 1, (hour % 10) + 1) \o ":00"

\* variant: every new keyword is appended and none is dropped
AddTriggersUncut(triggers, keywords) ==
    triggers \o SelectSeq(keywords, LAMBDA k : ~SeqContains(triggers, k))

\* variant: the last MaxTriggers keywords are kept
AddTriggersNewest(triggers, keywords) ==
    LET appended == triggers \o SelectSeq(keywords, LAMBDA k : ~SeqContains(triggers, k))
    IN  IF Len(appended) > MaxTriggers THEN Suffix(appended, MaxTriggers) ELSE appended

\* for keyword in keywords: append when new, then keep the first MaxTriggers
RECURSIVE AddTriggers(_, _)
AddTriggers(triggers, keywords) ==
    IF keywords = <<>> THEN triggers
    ELSE LET appended == IF SeqContains(triggers, Head(keywords)) THEN triggers
                         ELSE Append(triggers, Head(keywords))
             kept == IF Len(appended) > MaxTriggers THEN Prefix(appended, MaxTriggers)
                     ELSE appended
         IN  AddTriggers(kept, Tail(keywords))

\* variant: the mean of the stored average and the new intensity
RunningMeanOfTwo(avg_intensity, frequency, intensity) ==
    FracDiv(FracAdd(avg_intensity, intensity), 2)

\* (avg_intensity * (frequency - 1) + intensity) / frequency
RunningMean(avg_intensity, frequency, intensity) ==
    FracDiv(FracAdd(FracMul(avg_intensity, Frac(frequency - 1, 1)), intensity), frequency)

\* the pattern track_emotion builds from the pattern it loaded or created
TrackedPattern(pattern, intensity, context, t) ==
    LET frequency == pattern.frequency + 1
        time_slot == TimeSlot(t)
        time_patterns ==
            [slot \in DOMAIN pattern.time_patterns \cup {time_slot} |->
                IF slot = time_slot
                THEN (IF slot \in DOMAIN pattern.time_patterns
                      THEN pattern.time_patterns[slot] ELSE 0) + 1
                ELSE pattern.time_patterns[slot]]
    IN  [pattern EXCEPT
            !.frequency = frequency,
            !.avg_intensity = RunningMean(pattern.avg_intensity, frequency, intensity),
            !.triggers = IF context \notin {None, ""}
                         THEN AddTriggers(pattern.triggers, ExtractedKeywords[context])
                         ELSE pattern.triggers,
            !.time_patterns = time_patterns,
            !.last_occurrence = t]

\* memory_service.track_emotion on the tables given, with
\* repository.save_emotional_pattern: the existing row is updated, or a row is
\* inserted (which raises for a user without a profile row, the row it refers to)
track_emotion(patterns, profiles, u, emotion, intensity, context, t) ==
    LET rows == {r \in patterns : r.user_id = u /\ r.emotion = emotion}
        pattern == IF rows = {} THEN EmotionalPattern(u, emotion) ELSE First(rows)
    IN  IF rows = {} /\ {r \in profiles : r.user_id = u} = {}
        THEN [raised |-> TRUE, emotional_patterns |-> patterns]
        ELSE [raised |-> FALSE,
              emotional_patterns |->
                  (patterns \ rows) \cup {TrackedPattern(pattern, intensity, context, t)}]

\* the history of the intensities tracked for (u, emotion)
Tracked(u, emotion) ==
    IF emotion \in DOMAIN track_history[u] THEN track_history[u][emotion] ELSE <<>>

\* the history once one more call for (u, emotion) has returned
Record(history, u, emotion, intensity) ==
    [history EXCEPT ![u] =
        [e \in DOMAIN history[u] \cup {emotion} |->
            IF e = emotion
            THEN Append(IF e \in DOMAIN history[u] THEN history[u][e] ELSE <<>>, intensity)
            ELSE history[u][e]]]

TrackEmotion(u, emotion, intensity, context) ==
    LET result == track_emotion(emotional_patterns, user_profiles, u, emotion,
                                intensity, context, now)
    IN  /\ Budget(u)
        /\ emotional_patterns' = result.emotional_patterns
        /\ track_history' = IF result.raised THEN track_history
                            ELSE Record(track_history, u, emotion, intensity)
        /\ now' = IF result.raised THEN now ELSE now + 1
        /\ last' = Done("track_emotion", u, result.raised, <<emotion, intensity, context>>)
        /\ Spend(u)
        /\ UNCHANGED <<user_profiles, conversation_contexts, memories>>
        /\ UNCHANGED <<engine, in_flight>>

(***************************************************************************)
(* memory_service.update_conversation_context                              *)
(***************************************************************************)
\* the most message pairs, topics and trajectory entries a context keeps
MaxMessages == 10
MaxTopics == 15
MaxTrajectory == 20

\* variant: every new topic is appended and none is dropped
AddTopicsUncut(topics, keywords) ==
    topics \o SelectSeq(keywords, LAMBDA k : ~SeqContains(topics, k))

\* for topic in topics: append when new, then keep the last MaxTopics
RECURSIVE AddTopics(_, _)
AddTopics(topics, keywords) ==
    IF keywords = <<>> THEN topics
    ELSE LET appended == IF SeqContains(topics, Head(keywords)) THEN topics
                         ELSE Append(topics, Head(keywords))
             kept == IF Len(appended) > MaxTopics THEN Suffix(appended, MaxTopics)
                     ELSE appended
         IN  AddTopics(kept, Tail(keywords))

\* variant: no message pair is ever dropped
KeepMessagesUnbounded(messages) == messages

\* variant: the first MaxMessages message pairs are kept
KeepMessagesOldest(messages) ==
    IF Len(messages) > MaxMessages THEN SubSeq(messages, 1, MaxMessages) ELSE messages

\* keep the last MaxMessages message pairs
KeepMessages(messages) ==
    IF Len(messages) > MaxMessages THEN Suffix(messages, MaxMessages) ELSE messages

\* the context update_conversation_context builds from the one it loaded or created
UpdatedContext(context, message, response, emotion, t) ==
    LET entry == [user |-> message, assistant |-> response, timestamp |-> t,
                  emotion |-> emotion]
        trajectory == Append(context.emotion_trajectory, emotion)
        tracked == emotion \notin {None, ""}
    IN  [context EXCEPT
            !.messages = KeepMessages(Append(context.messages, entry)),
            !.topics = AddTopics(context.topics, ExtractedKeywords[message]),
            !.current_emotion = IF tracked THEN emotion ELSE context.current_emotion,
            !.emotion_trajectory =
                IF ~tracked THEN context.emotion_trajectory
                ELSE IF Len(trajectory) > MaxTrajectory
                THEN Suffix(trajectory, MaxTrajectory) ELSE trajectory,
            !.last_activity = t]

\* memory_service.update_conversation_context on the tables given, with
\* repository.save_conversation_context: the existing row is updated, or a row
\* is inserted (which raises for a user without a profile row)
update_conversation_context(contexts, profiles, u, session_id, message, response, emotion, t) ==
    LET rows == {r \in contexts : r.user_id = u}
        context == IF rows = {} THEN ConversationContext(u, session_id, t) ELSE First(rows)
    IN  IF rows = {} /\ {r \in profiles : r.user_id = u} = {}
        THEN [raised |-> TRUE, conversation_contexts |-> contexts]
        ELSE [raised |-> FALSE,
              conversation_contexts |->
                  (contexts \ rows)
                      \cup {UpdatedContext(context, message, response, emotion, t)}]

UpdateConversationContext(u, session_id, message, response, emotion) ==
    LET result == update_conversation_context(conversation_contexts, user_profiles, u,
                      session_id, message, response, emotion, now)
    IN  /\ Budget(u)
        /\ conversation_contexts' = result.conversation_contexts
        /\ now' = IF result.raised THEN now ELSE now + 1
        /\ last' = Done("update_conversation_context", u, result.raised,
                        <<session_id, message, response, emotion>>)
        /\ Spend(u)
        /\ UNCHANGED <<user_profiles, emotional_patterns, memories, track_history>>
        /\ UNCHANGED <<engine, in_flight>>

(***************************************************************************)
(* emotion_service: detect_emotion                                         *)
(***************************************************************************)
emotion_labels == {"joy", "sadness", "anger", "fear", "surprise", "neutral"}

\* a result of detection: the primary emotion, its confidence and all scores
EmotionScores(primary, confidence, all) ==
    [primary |-> primary, confidence |-> confidence, all |-> all]

\* a dict of scores given as <<label, thousandths>> pairs
Scores(pairs) ==
    [label \in {p[1] : p \in pairs} |->
        Frac((CHOOSE p \in pairs : p[1] = label)[2], 1000)]

\* detect_emotion: neutral_patterns
detect_neutral_patterns ==
    { "hi", "hello", "hey", "good morning", "good afternoon", "good evening",
      "how are you", "what's up", "okay", "ok", "bye", "goodbye", "see you", "hungry",
      "thirsty", "tired", "sleepy", "bored", "busy", "working", "eating" }

\* detect_emotion: positive_request_patterns
positive_request_patterns ==
    { "can you", "could you", "please", "tell me a joke", "say a joke", "any joke",
      "make me laugh", "something funny" }

\* detect_emotion: question_patterns
detect_question_patterns ==
    { "what can you", "how do you", "explain", "help me", "show me", "teach me",
      "what is", "who is", "where is", "when is", "why is" }

\* detect_emotion: practical_neutral_patterns
practical_neutral_patterns ==
    { "applied", "application", "job", "career", "resume", "cv", "interview", "paypal",
      "company", "position", "why did you choose", "form", "fill", "include on",
      "what to include", "give what", "need what" }

\* detect_emotion: frustration_patterns
frustration_patterns ==
    { "frustrated", "frustrating", "annoyed", "annoying", "irritated", "irritating",
      "pissed", "mad", "angry", "furious", "upset", "stressed", "hate this", "stupid",
      "ridiculous", "terrible", "awful", "doesn't work", "not working", "bug", "error",
      "broken", "failing", "fail" }

\* detect_emotion: fear_patterns
fear_patterns ==
    { "afraid", "scared", "worried", "anxious", "nervous", "terrified", "panic", "fear",
      "fearful", "frightened", "in fear", "am in fear", "i'm in fear", "feel fear",
      "feeling fear", "feeling anxious", "feeling nervous" }

\* detect_emotion: casual_states
casual_states ==
    { "hungry", "thirsty", "tired", "sleepy", "bored", "busy" }

\* detect_emotion: the words of thanks
thanks_words == {"thank", "thanks", "thx"}

\* detect_emotion: the words that keep a short joyful text joyful
short_joy_keywords == {"happy", "excited", "great", "wonderful", "awesome"}

\* the longest text a neutral pattern inside it still makes neutral
MaxNeutralLen == 15
\* the longest text whose high joy is taken back to neutral
MaxShortJoyLen == 20

\* _fallback_detection: neutral_patterns
fallback_neutral_patterns ==
    { "hi", "hello", "hey", "good morning", "good afternoon", "good evening",
      "how are you", "what's up", "thanks", "thank you", "okay", "ok", "yes", "no",
      "maybe", "sure", "alright", "bye", "goodbye" }

\* _fallback_detection: humor_patterns
humor_patterns ==
    { "tell me a joke", "say a joke", "any joke", "make me laugh", "something funny" }

\* _fallback_detection: question_patterns
fallback_question_patterns ==
    { "can you", "could you", "please", "what can you", "how do you", "explain",
      "help me", "show me", "teach me", "what is", "who is", "where is", "when is",
      "why is" }

\* _fallback_detection: joy_keywords
joy_keywords ==
    { "happy", "joy", "excited", "great", "wonderful", "love", "awesome", "fantastic" }

\* _fallback_detection: sad_keywords
sad_keywords ==
    { "sad", "unhappy", "depress", "down", "sorry", "disappointed", "hurt", "nobody",
      "alone", "hopeless", "no one", "noone", "isolated", "lonely" }

\* _fallback_detection: anger_keywords
anger_keywords ==
    { "angry", "mad", "furious", "annoyed", "frustrated", "hate", "disgusted" }

\* _fallback_detection: fear_keywords
fear_keywords ==
    { "afraid", "scared", "worried", "anxious", "nervous", "terrified", "panic", "fear",
      "fearful", "frightened" }

\* _fallback_detection: surprise_keywords
surprise_keywords ==
    { "wow", "amazing", "surprised", "unexpected", "incredible", "unbelievable" }

\* the longest text a neutral pattern makes neutral in _fallback_detection
MaxFallbackNeutralLen == 20
\* the score of one keyword, and the baseline and the boosted score of neutral
KeywordScore == 2
NeutralBaseline == 3
NeutralBoosted == 8

\* the order of the keys of `scores`, which max() follows on ties
ScoreOrder == <<"joy", "sadness", "anger", "fear", "surprise", "neutral">>

\* sum(2 if kw in text_lower else 0 for kw in keywords)
KeywordSum(text_lower, keywords) ==
    KeywordScore * Cardinality({kw \in keywords : Contains(text_lower, kw)})

\* emotion_service._fallback_detection
_fallback_detection(text) ==
    LET text_lower == Strip(Lower(text))
        counted == [joy |-> KeywordSum(text_lower, joy_keywords),
                    sadness |-> KeywordSum(text_lower, sad_keywords),
                    anger |-> KeywordSum(text_lower, anger_keywords),
                    fear |-> KeywordSum(text_lower, fear_keywords),
                    surprise |-> KeywordSum(text_lower, surprise_keywords)]
        none == \A k \in DOMAIN counted : counted[k] = 0
        scores == [k \in emotion_labels |->
                      IF k = "neutral"
                      THEN (IF none THEN NeutralBoosted ELSE NeutralBaseline)
                      ELSE counted[k]]
        total == scores.joy + scores.sadness + scores.anger + scores.fear
                    + scores.surprise + scores.neutral
        best == CHOOSE i \in 1..Len(ScoreOrder) :
                    /\ \A j \in 1..Len(ScoreOrder) : scores[ScoreOrder[j]] <= scores[ScoreOrder[i]]
                    /\ \A j \in 1..(i - 1) : scores[ScoreOrder[j]] < scores[ScoreOrder[i]]
        primary == ScoreOrder[best]
        emotion_scores == [k \in emotion_labels |-> Frac(scores[k], total)]
    IN  IF ContainsAny(text_lower, fallback_neutral_patterns)
              /\ Len(text_lower) <= MaxFallbackNeutralLen
        THEN EmotionScores("neutral", Frac(90, 100),
                 Scores({<<"neutral", 900>>, <<"joy", 40>>, <<"sadness", 20>>,
                         <<"anger", 10>>, <<"fear", 20>>, <<"surprise", 10>>}))
        ELSE IF ContainsAny(text_lower, humor_patterns)
        THEN EmotionScores("joy", Frac(85, 100),
                 Scores({<<"joy", 850>>, <<"neutral", 100>>, <<"surprise", 30>>,
                         <<"sadness", 10>>, <<"anger", 5>>, <<"fear", 5>>}))
        ELSE IF ContainsAny(text_lower, fallback_question_patterns)
        THEN EmotionScores("neutral", Frac(80, 100),
                 Scores({<<"neutral", 800>>, <<"joy", 100>>, <<"surprise", 50>>,
                         <<"sadness", 20>>, <<"anger", 10>>, <<"fear", 20>>}))
        ELSE EmotionScores(primary, emotion_scores[primary], emotion_scores)

\* _post_process_emotion: victim_keywords
victim_keywords ==
    { "scold", "scolded", "blamed", "wrongly accused", "unfairly", "innocent",
      "punished", "criticized unfairly" }

\* _post_process_emotion: depression_keywords
depression_keywords ==
    { "no one understands", "depress", "nobody understands", "no one is", "nobody is",
      "no one talk", "nobody talk", "alone", "hopeless", "isolated", "lonely",
      "worthless", "meaningless" }

\* _post_process_emotion: wrongly_accused
wrongly_accused ==
    { "i did not", "i didn't", "but i did not", "but i didn't", "not my fault but",
      "didn't do anything", "did nothing wrong" }

\* _post_process_emotion: fear_indicators
fear_indicators ==
    { "scared", "afraid", "worried", "anxious", "nervous", "terrified", "panic",
      "what if", "afraid of", "fear", "fearful", "frightened", "in fear" }

\* _post_process_emotion: joy_indicators
joy_indicators ==
    { "happy", "excited", "awesome", "great", "wonderful", "love it", "amazing",
      "fantastic", "brilliant" }

\* _post_process_emotion: negative_words
negative_words ==
    { "not", "but", "wrong", "bad", "problem", "issue", "difficult", "hard", "struggle",
      "tough" }

\* _post_process_emotion: mixed_emotion_patterns, flattened
mixed_emotion_patterns ==
    { "but", "however", "although", "though", "happy but", "excited but", "glad but",
      "sad but", "upset but", "angry but" }

\* all_emotions.get(label, default)
ScoreOr(all, label, default) == IF label \in DOMAIN all THEN all[label] ELSE default

\* sorted(all_emotions.items(), key=score, reverse=True)[1][1], for a dict of
\* more than one entry
SecondScore(all) ==
    LET top == CHOOSE k \in DOMAIN all : \A j \in DOMAIN all : ~FracLess(all[k], all[j])
        others == DOMAIN all \ {top}
    IN  all[CHOOSE k \in others : \A j \in others : ~FracLess(all[k], all[j])]

\* the result of the classifier, left as it is
_post_process_emotion_unapplied(text, result) == result

\* emotion_service._post_process_emotion
_post_process_emotion(text, result) ==
    LET text_lower == Strip(Lower(text))
        primary == result.primary
        confidence == result.confidence
        all_emotions == result.all
        words == WordCount(text_lower)
        has_victim_context == ContainsAny(text_lower, victim_keywords)
        has_depression == ContainsAny(text_lower, depression_keywords)
        has_wrongly_accused == ContainsAny(text_lower, wrongly_accused)
        has_fear == ContainsAny(text_lower, fear_indicators)
        has_joy == ContainsAny(text_lower, joy_indicators)
        sadness == FracMax(Frac(78, 100), ScoreOr(all_emotions, "sadness", Frac(50, 100)))
        negative_count == Cardinality({w \in negative_words : Contains(text_lower, w)})
    IN  IF WordCount(Strip(text)) <= 2 /\ FracLess(Frac(30, 100), confidence)
        THEN result
        ELSE IF primary = "anger"
                  /\ (has_victim_context \/ has_depression \/ has_wrongly_accused)
        THEN EmotionScores("sadness", sadness,
                 [k \in DOMAIN all_emotions \cup {"sadness", "anger", "fear"} |->
                     IF k = "sadness" THEN sadness
                     ELSE IF k = "anger" THEN FracMul(confidence, Frac(25, 100))
                     ELSE IF k = "fear" THEN Frac(10, 100)
                     ELSE FracMul(all_emotions[k], Frac(40, 100))])
        ELSE IF primary \in {"anger", "neutral"} /\ has_fear /\ words > 3
        THEN EmotionScores("fear", Frac(75, 100),
                 [k \in {"fear", primary, "neutral"} |->
                     IF k = "neutral" THEN Frac(5, 100)
                     ELSE IF k = primary THEN FracMul(confidence, Frac(20, 100))
                     ELSE Frac(75, 100)])
        ELSE IF primary = "neutral" /\ has_joy /\ FracLess(confidence, Frac(70, 100))
        THEN EmotionScores("joy", Frac(80, 100),
                 Scores({<<"joy", 800>>, <<"neutral", 150>>, <<"surprise", 50>>}))
        ELSE IF FracLess(confidence, Frac(20, 100)) /\ words > 5 /\ negative_count >= 2
        THEN EmotionScores("sadness", Frac(65, 100),
                 Scores({<<"sadness", 650>>, <<"neutral", 200>>, <<"anger", 80>>,
                         <<"fear", 70>>}))
        ELSE IF ContainsAny(text_lower, mixed_emotion_patterns)
                  /\ Cardinality(DOMAIN all_emotions) > 1
                  /\ FracLess(Frac(20, 100), SecondScore(all_emotions))
        THEN EmotionScores(primary, FracMul(confidence, Frac(85, 100)), all_emotions)
        ELSE result

\* what the classifier does in one request: whether the ONNX session is in use,
\* whether the PyTorch model is loaded, whether inference raises, and the
\* scores inference gives when it does not
ModelResults ==
    { EmotionScores("sadness", Frac(92, 100),
          Scores({<<"sadness", 920>>, <<"fear", 30>>, <<"anger", 20>>, <<"neutral", 15>>,
                  <<"joy", 10>>, <<"surprise", 5>>})),
      EmotionScores("neutral", Frac(55, 100),
          Scores({<<"neutral", 550>>, <<"joy", 300>>, <<"surprise", 60>>,
                  <<"sadness", 50>>, <<"anger", 20>>, <<"fear", 20>>})) }

Classifiers ==
    [use_onnx : {TRUE}, is_loaded : {TRUE}, raised : {FALSE}, result : ModelResults]
      \cup [use_onnx : {TRUE}, is_loaded : {TRUE}, raised : {TRUE},
            result : {CHOOSE r \in ModelResults : TRUE}]
      \cup [use_onnx : {FALSE}, is_loaded : BOOLEAN, raised : {TRUE},
            result : {CHOOSE r \in ModelResults : TRUE}]
      \cup [use_onnx : {FALSE}, is_loaded : {TRUE}, raised : {FALSE},
            result : {EmotionScores("joy", Frac(95, 100),
                          Scores({<<"joy", 950>>, <<"surprise", 20>>, <<"neutral", 15>>,
                                  <<"sadness", 5>>, <<"anger", 5>>, <<"fear", 5>>}))}]

\* the classifier could not classify: inference raised or no model is loaded
ClassifierFailed(classifier) == classifier.raised \/ ~classifier.is_loaded

\* onnx_emotion_service.detect_emotion without its exception handler
onnx_detect_emotion_unguarded(classifier) ==
    classifier.result

\* onnx_emotion_service.detect_emotion: inference, or neutral at 0.5 when it raises
onnx_detect_emotion(classifier) ==
    IF classifier.raised
    THEN EmotionScores("neutral", Frac(50, 100), Scores({<<"neutral", 500>>}))
    ELSE classifier.result

\* detect_emotion, PyTorch inference: high joy for a short text without a
\* joyful word is taken back to neutral
torch_detect_emotion(text, text_lower, result) ==
    IF /\ result.primary = "joy"
       /\ FracLess(Frac(80, 100), result.confidence)
       /\ Len(Strip(text)) <= MaxShortJoyLen
       /\ ~ContainsAny(text_lower, short_joy_keywords)
    THEN EmotionScores("neutral", Frac(75, 100),
             [k \in DOMAIN result.all \cup {"neutral", "joy"} |->
                 IF k = "neutral" THEN Frac(75, 100)
                 ELSE IF k = "joy" THEN FracMul(result.confidence, Frac(25, 100))
                 ELSE FracMul(result.all[k], Frac(10, 100))])
    ELSE result

\* emotion_service.detect_emotion
detect_emotion(text, classifier) ==
    LET text_lower == Strip(Lower(text))
    IN  IF ContainsAny(text_lower, practical_neutral_patterns)
        THEN EmotionScores("neutral", Frac(90, 100),
                 Scores({<<"neutral", 900>>, <<"joy", 50>>, <<"surprise", 20>>,
                         <<"sadness", 10>>, <<"anger", 10>>, <<"fear", 10>>}))
        ELSE IF ContainsAny(text_lower, frustration_patterns)
        THEN EmotionScores("anger", Frac(88, 100),
                 Scores({<<"anger", 880>>, <<"sadness", 60>>, <<"neutral", 30>>,
                         <<"fear", 10>>, <<"surprise", 10>>, <<"joy", 10>>}))
        ELSE IF ContainsAny(text_lower, fear_patterns)
        THEN EmotionScores("fear", Frac(88, 100),
                 Scores({<<"fear", 880>>, <<"sadness", 50>>, <<"neutral", 30>>,
                         <<"anger", 20>>, <<"surprise", 10>>, <<"joy", 10>>}))
        ELSE IF ContainsAny(text_lower, casual_states)
        THEN EmotionScores("neutral", Frac(85, 100),
                 Scores({<<"neutral", 850>>, <<"joy", 50>>, <<"sadness", 50>>,
                         <<"surprise", 20>>, <<"anger", 20>>, <<"fear", 10>>}))
        ELSE IF ContainsAny(text_lower, positive_request_patterns)
        THEN EmotionScores("joy", Frac(85, 100),
                 Scores({<<"joy", 850>>, <<"neutral", 100>>, <<"surprise", 30>>,
                         <<"sadness", 10>>, <<"anger", 5>>, <<"fear", 5>>}))
        ELSE IF ContainsAny(text_lower, detect_question_patterns)
        THEN EmotionScores("neutral", Frac(85, 100),
                 Scores({<<"neutral", 850>>, <<"joy", 80>>, <<"surprise", 30>>,
                         <<"sadness", 20>>, <<"anger", 10>>, <<"fear", 10>>}))
        ELSE IF \/ text_lower \in detect_neutral_patterns
                \/ /\ ContainsAny(text_lower, detect_neutral_patterns)
                   /\ Len(text_lower) <= MaxNeutralLen
        THEN EmotionScores("neutral", Frac(90, 100),
                 Scores({<<"neutral", 900>>, <<"joy", 40>>, <<"sadness", 20>>,
                         <<"anger", 10>>, <<"fear", 20>>, <<"surprise", 10>>}))
        ELSE IF ContainsAny(text_lower, thanks_words)
        THEN EmotionScores("neutral", Frac(85, 100),
                 Scores({<<"neutral", 850>>, <<"joy", 100>>, <<"sadness", 20>>,
                         <<"anger", 10>>, <<"fear", 10>>, <<"surprise", 10>>}))
        ELSE IF classifier.use_onnx
        THEN _post_process_emotion(text, onnx_detect_emotion(classifier))
        ELSE IF ~classifier.is_loaded \/ classifier.raised
        THEN _fallback_detection(text)
        ELSE torch_detect_emotion(text, text_lower, classifier.result)

(***************************************************************************)
(* intelligent_reply_engine: the context, the negation and the strategy    *)
(***************************************************************************)
\* _check_emotional_negation: negation_patterns
negation_patterns ==
    { "i am not in sad", "i'm not in sad", "im not sad", "not sad", "i am not sad",
      "i'm not sad", "not feeling sad", "i am not angry", "i'm not angry",
      "im not angry", "not angry", "not mad", "i'm not mad", "im not mad",
      "i am not upset", "i'm not upset", "not upset", "not depressed", "not feeling",
      "i am not in", "just asked", "just asking", "just wanted to", "only asked",
      "only wanted", "just want to know", "not in sad", "not in angry", "not in fear" }

\* _check_emotional_negation: emotion_words
negation_emotion_words ==
    { "sad", "angry", "mad", "upset", "depressed", "scared", "fear", "worried", "anxious" }

\* the characters before an emotion word that are searched for a negation
NegationWindow == 15

\* intelligent_reply_engine._check_emotional_negation
_check_emotional_negation(message) ==
    LET message_lower == Strip(Lower(message))
        has_negation == ContainsAny(message_lower, negation_patterns)
        Preceding(emotion) ==
            LET emotion_pos == Find(message_lower, emotion)
            IN  SubSeq(message_lower, Max(1, emotion_pos - NegationWindow), emotion_pos - 1)
    IN  \/ /\ Contains(message_lower, "not") \/ Contains(message_lower, "no")
           /\ \E emotion \in negation_emotion_words :
                 /\ Contains(message_lower, emotion)
                 /\ ContainsAny(Preceding(emotion), {"not", "no", "n't"})
        \/ has_negation

\* _detect_context: gratitude_words
gratitude_words ==
    { "thank you", "thanks", "thank u", "thx", "tysm", "appreciate" }

\* _detect_context: clarification_patterns
clarification_patterns ==
    { "i am not", "i'm not", "im not", "not in", "not feeling", "just asked",
      "just asking", "just want to", "just wanted", "only wanted", "only asking",
      "didnt mean", "didn't mean" }

\* _detect_context: positive_learning_patterns
positive_learning_patterns ==
    { "happy mode", "in this mood", "feeling good", "excited to learn", "joyful",
      "feeling great", "in good spirits", "positive mood" }

\* _detect_context: greetings
greetings ==
    { "hi ", " hi", "hello", "hey ", " hey", "good morning", "good afternoon",
      "good evening" }

\* _detect_context: practical_keywords
practical_keywords ==
    { "applied", "application", "job", "career", "resume", "cv", "interview", "form",
      "fill", "include on", "what to include", "give what", "bank", "account", "money",
      "paypal", "company", "position", "code for", "program for", "script for",
      "function for", "write code", "create code", "generate code", "make code",
      "api connection", "connect to api", "rest api", "api call", "python code",
      "javascript code", "java code", "algorithm for", "function to", "class for" }

\* _detect_context: generic_requests
generic_requests ==
    { "help me with", "need to", "want to know", "explain", "tell me about",
      "i want a code", "i want code", "want a program", "want to make", "give me code",
      "show me code", "need code for", "looking for code", "can you give", "give a",
      "give me a" }

\* _detect_context: casual_phrases
casual_phrases ==
    { "how are you", "how r you", "how r u", "how are u", "what's up", "whats up", "sup",
      "wassup", "how's it going", "hows it going", "how is it going", "how are things",
      "how's everything", "hows everything", "what are you doing", "what r u doing",
      "whatcha doing", "tell me something", "say something", "talk to me", "i'm bored",
      "im bored", "bored" }

\* _detect_context: incomplete_questions
incomplete_questions ==
    { "give what", "what to", "how to", "which", "include what", "need what", "say what" }

\* Python: s.startswith(tuple)
StartsWithAny(s, prefixes) == \E p \in prefixes : StartsWith(s, p)

\* intelligent_reply_engine._detect_context
_detect_context(message) ==
    LET message_lower == Strip(Lower(message))
    IN  IF ContainsAny(message_lower, gratitude_words) THEN "gratitude"
        ELSE IF ContainsAny(message_lower, clarification_patterns) THEN "clarification"
        ELSE IF ContainsAny(message_lower, positive_learning_patterns)
        THEN "emotional_learning"
        ELSE IF ContainsAny(message_lower, greetings) \/ message_lower \in {"hi", "hey"}
        THEN "greeting"
        ELSE IF ContainsAny(message_lower, practical_keywords) THEN "practical_request"
        ELSE IF ContainsAny(message_lower, generic_requests) THEN "practical_request"
        ELSE IF ContainsAny(message_lower, casual_phrases) THEN "casual_conversation"
        ELSE IF StartsWithAny(message_lower,
                    {"what is", "what are", "who is", "who are", "explain", "define"})
        THEN "question"
        ELSE IF StartsWithAny(message_lower, {"how does", "how do", "how can", "how to"})
        THEN "question"
        ELSE IF StartsWithAny(message_lower, {"why", "when", "where", "can you"})
        THEN "question"
        ELSE IF ContainsAny(message_lower, incomplete_questions) THEN "question"
        ELSE "emotional_expression"

\* _determine_strategy: emotional_learning_patterns
emotional_learning_patterns ==
    { "happy mode", "excited to", "joyful", "feeling good", "in this mood",
      "sad but want", "angry but need", "scared but want to" }

\* _determine_strategy: knowledge_requests
knowledge_requests ==
    { "tell me a joke", "tell me about", "can you explain", "can you say", "show me",
      "help me with", "teach me", "can you define", "can you tell", "calculate", "solve",
      "write code", "create program", "build", "develop", "steps to", "how do i",
      "how can i", "give me", "list", "compare", "difference between", "meaning of",
      "example of", "tutorial on", "write a", "make a", "generate", "show me how" }

\* _determine_strategy: emotional_keywords
emotional_keywords ==
    { "depress", "hurt", "scared", "worried", "anxious", "crying", "devastated",
      "horrible", "terrible", "awful", "lonely", "alone", "hopeless", "helpless",
      "worthless", "furious", "frustrated", "unfair", "wrongly", "blamed", "scolded",
      "punished", "innocent", "not my fault", "didn't do", "no one", "nobody", "isolated" }

\* _determine_strategy: the prefixes of a clear question
question_starts ==
    { "what is", "who is", "where is", "when is", "why is", "how is", "what are",
      "who are", "where are", "when are", "why are", "how are" }

\* _determine_strategy: the words of a joyful learning request
joyful_learning_words == {"learn", "want to", "excited", "happy"}

\* the longest greeting, in words, that is answered casually at once
MaxGreetingWords == 5

negative_emotions == {"sadness", "fear", "anger"}

\* _determine_strategy: the strategy given by the rules that come before
\* the distress keywords (clarification, emotional learning, gratitude, short
\* greeting, casual conversation, emotional context, knowledge request), None
\* when none of them applies
EarlyStrategy(message, emotion_result) ==
    LET context == emotion_result.context
        message_lower == Lower(message)
    IN  IF context = "clarification" THEN "casual_chat"
        ELSE IF context = "emotional_learning" THEN "hybrid"
        ELSE IF context = "gratitude" THEN "casual_chat"
        ELSE IF context = "greeting" /\ WordCount(message) <= MaxGreetingWords
        THEN "casual_chat"
        ELSE IF context = "casual_conversation" THEN "casual_chat"
        ELSE IF /\ ContainsAny(message_lower, emotional_learning_patterns)
                /\ emotion_result.is_emotional
        THEN "hybrid"
        ELSE IF \/ ContainsAny(message_lower, knowledge_requests)
                \/ StartsWithAny(message_lower, question_starts)
        THEN IF /\ emotion_result.primary = "joy"
                /\ ContainsAny(message_lower, joyful_learning_words)
             THEN "hybrid" ELSE "knowledge_focused"
        ELSE None

\* _determine_strategy: the strategy given by the rules that come after the
\* two rules of emotional support
LateStrategy(emotion_result) ==
    LET context == emotion_result.context
        emotion == emotion_result.primary
    IN  IF context \in {"practical_request", "question"} THEN "knowledge_focused"
        ELSE IF context \in {"greeting", "casual_conversation"} THEN "casual_chat"
        ELSE IF emotion \in {"joy", "surprise", "neutral"} /\ context = "question"
        THEN "knowledge_focused"
        ELSE IF /\ emotion_result.is_emotional
                /\ context \in {"question", "practical_request"}
                /\ emotion \in {"anger", "fear"}
        THEN "hybrid"
        ELSE "casual_chat"

\* _determine_strategy: the message holds a keyword of emotional distress
HasDistressKeyword(message) == ContainsAny(Lower(message), emotional_keywords)

\* variant: the rule of the distress keywords is left out
_determine_strategy_without_keywords(message, emotion_result) ==
    IF EarlyStrategy(message, emotion_result) # None
    THEN EarlyStrategy(message, emotion_result)
    ELSE IF /\ emotion_result.is_emotional
            /\ FracLess(Frac(50, 100), emotion_result.confidence)
            /\ emotion_result.primary \in negative_emotions
            /\ emotion_result.context # "clarification"
    THEN "emotional_support"
    ELSE LateStrategy(emotion_result)

\* variant: the rule of the confident negative emotion is left out
_determine_strategy_without_confidence(message, emotion_result) ==
    IF EarlyStrategy(message, emotion_result) # None
    THEN EarlyStrategy(message, emotion_result)
    ELSE IF /\ emotion_result.primary \in negative_emotions
            /\ HasDistressKeyword(message)
            /\ emotion_result.context # "clarification"
    THEN "emotional_support"
    ELSE LateStrategy(emotion_result)

\* variant: the rule of the confident negative emotion applies from 0.5 on,
\* whether or not the result is marked emotional
_determine_strategy_from_half(message, emotion_result) ==
    IF EarlyStrategy(message, emotion_result) # None
    THEN EarlyStrategy(message, emotion_result)
    ELSE IF /\ emotion_result.primary \in negative_emotions
            /\ HasDistressKeyword(message)
            /\ emotion_result.context # "clarification"
    THEN "emotional_support"
    ELSE IF /\ FracLess(Frac(50, 100), emotion_result.confidence)
            /\ emotion_result.primary \in negative_emotions
            /\ emotion_result.context # "clarification"
    THEN "emotional_support"
    ELSE LateStrategy(emotion_result)

\* variant: the rule of the mixed emotional and informational message
\* (anger or fear with a question or a practical request) comes before the
\* rules of emotional support and the rule of the context
_determine_strategy_hybrid_first(message, emotion_result) ==
    IF EarlyStrategy(message, emotion_result) # None
    THEN EarlyStrategy(message, emotion_result)
    ELSE IF /\ emotion_result.is_emotional
            /\ emotion_result.context \in {"question", "practical_request"}
            /\ emotion_result.primary \in {"anger", "fear"}
    THEN "hybrid"
    ELSE IF /\ emotion_result.primary \in negative_emotions
            /\ emotion_result.context # "clarification"
            /\ \/ HasDistressKeyword(message)
               \/ /\ emotion_result.is_emotional
                  /\ FracLess(Frac(50, 100), emotion_result.confidence)
    THEN "emotional_support"
    ELSE LateStrategy(emotion_result)

\* variant: a message that no rule decides gets the strategy "default"
_determine_strategy_with_default(message, emotion_result) ==
    IF EarlyStrategy(message, emotion_result) # None
    THEN EarlyStrategy(message, emotion_result)
    ELSE IF /\ emotion_result.primary \in negative_emotions
            /\ emotion_result.context # "clarification"
            /\ \/ HasDistressKeyword(message)
               \/ /\ emotion_result.is_emotional
                  /\ FracLess(Frac(50, 100), emotion_result.confidence)
    THEN "emotional_support"
    ELSE IF emotion_result.context = "emotional_expression" THEN "default"
    ELSE LateStrategy(emotion_result)

\* intelligent_reply_engine._determine_strategy
_determine_strategy(message, emotion_result) ==
    LET context == emotion_result.context
        emotion == emotion_result.primary
        confidence == emotion_result.confidence
        is_emotional == emotion_result.is_emotional
        message_lower == Lower(message)
        word_count == WordCount(message)
        has_emotional_context == ContainsAny(message_lower, emotional_learning_patterns)
        starts_with_question == StartsWithAny(message_lower, question_starts)
    IN  IF context = "clarification" THEN "casual_chat"
        ELSE IF context = "emotional_learning" THEN "hybrid"
        ELSE IF context = "gratitude" THEN "casual_chat"
        ELSE IF context = "greeting" /\ word_count <= MaxGreetingWords THEN "casual_chat"
        ELSE IF context = "casual_conversation" THEN "casual_chat"
        ELSE IF has_emotional_context /\ is_emotional THEN "hybrid"
        ELSE IF ContainsAny(message_lower, knowledge_requests) \/ starts_with_question
        THEN IF emotion = "joy" /\ ContainsAny(message_lower, joyful_learning_words)
             THEN "hybrid" ELSE "knowledge_focused"
        ELSE IF /\ emotion \in negative_emotions
                /\ ContainsAny(message_lower, emotional_keywords)
                /\ context # "clarification"
        THEN "emotional_support"
        ELSE IF /\ is_emotional /\ FracLess(Frac(50, 100), confidence)
                /\ emotion \in negative_emotions
                /\ context # "clarification"
        THEN "emotional_support"
        ELSE IF context \in {"practical_request", "question"} THEN "knowledge_focused"
        ELSE IF context \in {"greeting", "casual_conversation"} THEN "casual_chat"
        ELSE IF emotion \in {"joy", "surprise", "neutral"} /\ context = "question"
        THEN "knowledge_focused"
        ELSE IF /\ is_emotional /\ context \in {"question", "practical_request"}
                /\ emotion \in {"anger", "fear"}
        THEN "hybrid"
        ELSE "casual_chat"

\* generate_reply: emotion_result without the override of a negated emotion
EmotionResultAsDetected(message, emotion_data) ==
    [primary |-> emotion_data.primary,
     confidence |-> emotion_data.confidence,
     intensity |-> FracMul(emotion_data.confidence, Frac(100, 1)),
     all_emotions |-> emotion_data.all,
     context |-> _detect_context(message),
     is_emotional |-> FracLess(Frac(60, 100), emotion_data.confidence)]

\* generate_reply: emotion_result, from the classifier's result and the message
EmotionResult(message, emotion_data) ==
    IF _check_emotional_negation(message)
    THEN [primary |-> "neutral",
          confidence |-> Frac(90, 100),
          intensity |-> FracMul(emotion_data.confidence, Frac(100, 1)),
          all_emotions |-> emotion_data.all,
          context |-> "clarification",
          is_emotional |-> FALSE]
    ELSE [primary |-> emotion_data.primary,
          confidence |-> emotion_data.confidence,
          intensity |-> FracMul(emotion_data.confidence, Frac(100, 1)),
          all_emotions |-> emotion_data.all,
          context |-> _detect_context(message),
          is_emotional |-> FracLess(Frac(60, 100), emotion_data.confidence)]

(***************************************************************************)
(* knowledge_engine: the instant-answer table and the fallback             *)
(* In a text, @ stands for a character that the emoji pattern of           *)
(* _enhance_with_personality removes, { for any other character outside    *)
(* ASCII and } for a backtick.                                             *)
(***************************************************************************)
\* _check_simple_facts: one entry per `if`, in the order of the code
simple_facts(question_lower) ==
    <<
       [hit |-> (Contains(question_lower, "improve communication skills") \/
                  Contains(question_lower, "improve my communication")),
        answer |->
          "To improve communication: 1) Listen actively without interrupting, 2) "
          \o "Practice clear and concise speaking, 3) Read body language, 4) Ask que"
          \o "stions to understand better, 5) Practice with friends or in front of a"
          \o " mirror, 6) Join public speaking groups like Toastmasters."],
       [hit |-> (Contains(question_lower, "overcome overthinking") \/
                  Contains(question_lower, "stop overthinking")),
        answer |->
          "To overcome overthinking: 1) Practice mindfulness and meditation, 2) S"
          \o "et a time limit for decisions, 3) Focus on solutions, not problems, 4)"
          \o " Write down your thoughts to clear your mind, 5) Stay present in the m"
          \o "oment, 6) Accept that you can't control everything."],
       [hit |-> (Contains(question_lower, "become more confident") \/
                  Contains(question_lower, "build confidence")),
        answer |->
          "To build confidence: 1) Set small achievable goals, 2) Practice positi"
          \o "ve self-talk, 3) Improve your skills through learning, 4) Dress well a"
          \o "nd maintain good posture, 5) Face your fears gradually, 6) Celebrate s"
          \o "mall wins, 7) Surround yourself with supportive people."],
       [hit |-> (Contains(question_lower, "stay motivated") \/
                  Contains(question_lower, "keep motivated")),
        answer |->
          "To stay motivated: 1) Set clear, meaningful goals, 2) Break big goals "
          \o "into small tasks, 3) Track your progress visually, 4) Reward yourself "
          \o "for milestones, 5) Find an accountability partner, 6) Remember your 'w"
          \o "hy', 7) Take breaks to avoid burnout."],
       [hit |-> (Contains(question_lower, "manage time better") \/
                  Contains(question_lower, "time management")),
        answer |->
          "For better time management: 1) Use the Eisenhower Matrix (urgent vs im"
          \o "portant), 2) Time-block your calendar, 3) Eliminate distractions, 4) U"
          \o "se the Pomodoro Technique (25min focus + 5min break), 5) Prioritize ta"
          \o "sks by impact, 6) Say 'no' to non-essential tasks."],
       [hit |-> (Contains(question_lower, "stop procrastinating") \/
                  Contains(question_lower, "overcome procrastination")),
        answer |->
          "To stop procrastinating: 1) Start with just 2 minutes (2-minute rule),"
          \o " 2) Break tasks into tiny steps, 3) Remove distractions, 4) Use the '5"
          \o "-4-3-2-1 Go!' technique, 5) Make tasks fun or rewarding, 6) Work durin"
          \o "g your peak energy hours."],
       [hit |-> (Contains(question_lower, "improve public speaking") \/
                  Contains(question_lower, "public speaking")),
        answer |->
          "To improve public speaking: 1) Practice your speech multiple times, 2)"
          \o " Know your material inside-out, 3) Start with small audiences, 4) Make"
          \o " eye contact and use gestures, 5) Speak slowly and clearly, 6) Join To"
          \o "astmasters or similar groups, 7) Record yourself to identify areas to "
          \o "improve."],
       [hit |-> (Contains(question_lower, "build good habits") \/
                  Contains(question_lower, "create good habits")),
        answer |->
          "To build good habits: 1) Start small (1% better daily), 2) Stack new h"
          \o "abits onto existing ones, 3) Make it obvious (visual cues), 4) Make it"
          \o " easy (reduce friction), 5) Track your progress, 6) Be consistent for "
          \o "21-66 days, 7) Don't break the chain."],
       [hit |-> (Contains(question_lower, "deal with stress") \/
                  Contains(question_lower, "manage stress")),
        answer |->
          "To manage stress: 1) Practice deep breathing exercises, 2) Exercise re"
          \o "gularly (even 10min walks help), 3) Get 7-8 hours sleep, 4) Talk to fr"
          \o "iends or a therapist, 5) Practice mindfulness/meditation, 6) Limit caf"
          \o "feine and alcohol, 7) Take breaks and do hobbies."],
       [hit |-> (Contains(question_lower, "study effectively") \/
                  Contains(question_lower, "how to study")),
        answer |->
          "Study effectively: 1) Use active recall (test yourself), 2) Spaced rep"
          \o "etition (review at intervals), 3) Pomodoro technique (25min focus), 4)"
          \o " Teach concepts to others, 5) Take handwritten notes, 6) Eliminate dis"
          \o "tractions, 7) Study in short, focused sessions."],
       [hit |-> (Contains(question_lower, "improve my english") \/
                  Contains(question_lower, "improve english")),
        answer |->
          "To improve English: 1) Read books, news, articles daily, 2) Watch Engl"
          \o "ish movies/shows with subtitles, 3) Practice speaking with language pa"
          \o "rtners, 4) Write daily (journal, blog, essays), 5) Use apps like Duoli"
          \o "ngo or HelloTalk, 6) Learn 5 new words daily, 7) Think in English."],
       [hit |-> (Contains(question_lower, "what language should i learn") /\
                  Contains(question_lower, "program")),
        answer |->
          "Best programming languages for beginners: **Python** (easiest, most ve"
          \o "rsatile), **JavaScript** (web development), **Java** (enterprise apps)"
          \o ", **C++** (systems/games). For 2025: Python for AI/data, JavaScript fo"
          \o "r web, Go for cloud, Rust for performance."],
       [hit |-> (Contains(question_lower, "start with machine learning") \/
                  Contains(question_lower, "learn machine learning")),
        answer |->
          "To start machine learning: 1) Learn Python basics first, 2) Study math"
          \o " (linear algebra, statistics), 3) Take Andrew Ng's ML course (Coursera"
          \o "), 4) Learn libraries: NumPy, Pandas, scikit-learn, 5) Practice on Kag"
          \o "gle datasets, 6) Build small projects, 7) Understand neural networks b"
          \o "asics."],
       [hit |-> (Contains(question_lower, "how does ai work") \/ Contains(question_lower, "explain ai")),
        answer |->
          "AI (Artificial Intelligence) works by training computer models on larg"
          \o "e datasets to recognize patterns and make predictions. It uses algorit"
          \o "hms like neural networks (inspired by human brains) to learn from exam"
          \o "ples. Types: Machine Learning (learns from data), Deep Learning (compl"
          \o "ex neural networks), NLP (understands language)."],
       [hit |-> Contains(question_lower, "what is api"),
        answer |->
          "API (Application Programming Interface) is a way for different softwar"
          \o "e to communicate. Think of it as a waiter in a restaurant: you (app) t"
          \o "ell the waiter (API) what you want, the waiter tells the kitchen (serv"
          \o "er), and brings back your food (data). APIs let apps share data and fu"
          \o "nctionality."],
       [hit |-> (Contains(question_lower, "how to be more organized") \/
                  Contains(question_lower, "get organized")),
        answer |->
          "To be more organized: 1) Use a task manager (Todoist, Notion), 2) Keep"
          \o " a daily calendar, 3) Declutter your workspace weekly, 4) Use folders "
          \o "and labels for files, 5) Plan your week every Sunday, 6) Follow the 't"
          \o "ouch it once' rule, 7) Automate repetitive tasks."],
       [hit |-> (Contains(question_lower, "productivity apps") \/
                  Contains(question_lower, "suggest apps for productivity")),
        answer |->
          "Top productivity apps: **Notion** (all-in-one workspace), **Todoist** "
          \o "(task management), **Obsidian** (note-taking), **RescueTime** (time tr"
          \o "acking), **Forest** (focus timer), **Grammarly** (writing), **Pocket**"
          \o " (read later), **Calendly** (scheduling)."],
       [hit |-> (Contains(question_lower, "start a business") \/
                  Contains(question_lower, "how to start business")),
        answer |->
          "To start a business: 1) Identify a problem to solve, 2) Research your "
          \o "market and competitors, 3) Create a simple MVP (minimum viable product"
          \o "), 4) Validate with real customers, 5) Start small (don't quit your jo"
          \o "b yet), 6) Register your business legally, 7) Focus on one niche first"
          \o "."],
       [hit |-> (Contains(question_lower, "earn money online") \/
                  Contains(question_lower, "make money online")),
        answer |->
          "Ways to earn online: 1) Freelancing (Upwork, Fiverr) - writing, design"
          \o ", coding, 2) Online tutoring (Chegg, Preply), 3) Content creation (You"
          \o "Tube, blogging), 4) Selling digital products (courses, ebooks), 5) Dro"
          \o "pshipping or print-on-demand, 6) Affiliate marketing, 7) Virtual assis"
          \o "tant services."],
       [hit |-> (Contains(question_lower, "skills for the future") \/
                  Contains(question_lower, "best skills")),
        answer |->
          "Future-proof skills: **Tech**: AI/ML, cloud computing, cybersecurity, "
          \o "data analysis. **Soft skills**: Critical thinking, creativity, emotion"
          \o "al intelligence, adaptability. **Business**: Digital marketing, produc"
          \o "t management, sales. **Emerging**: Prompt engineering, blockchain, gre"
          \o "en tech."],
       [hit |-> (Contains(question_lower, "how to negotiate salary") \/
                  Contains(question_lower, "negotiate salary")),
        answer |->
          "Salary negotiation tips: 1) Research market rates (Glassdoor, PayScale"
          \o "), 2) Know your value and achievements, 3) Let them make the first off"
          \o "er, 4) Ask for 10-20% more than desired, 5) Focus on total package (be"
          \o "nefits, WFH, PTO), 6) Practice your pitch, 7) Be ready to walk away."],
       [hit |-> (Contains(question_lower, "how to lose weight") \/
                  Contains(question_lower, "lose weight")),
        answer |->
          "To lose weight healthily: 1) Calorie deficit (eat less than you burn),"
          \o " 2) Eat whole foods (protein, veggies, fruits), 3) Drink 2-3L water da"
          \o "ily, 4) Exercise 30min daily (cardio + strength), 5) Sleep 7-8 hours, "
          \o "6) Avoid sugary drinks, 7) Track your food intake. Aim for 0.5-1kg/wee"
          \o "k loss."],
       [hit |-> (Contains(question_lower, "gym routine for beginners") \/
                  Contains(question_lower, "start gym")),
        answer |->
          "Beginner gym routine (3x/week): **Day 1**: Chest & triceps (bench pres"
          \o "s, pushups, dips). **Day 2**: Back & biceps (rows, pull-ups, curls). *"
          \o "*Day 3**: Legs & shoulders (squats, lunges, overhead press). Start wit"
          \o "h 3 sets x 8-12 reps. Add 20min cardio. Rest 1-2 days between."],
       [hit |-> (Contains(question_lower, "how to save money") \/
                  Contains(question_lower, "save money")),
        answer |->
          "To save money: 1) Follow 50/30/20 rule (50% needs, 30% wants, 20% savi"
          \o "ngs), 2) Automate savings (pay yourself first), 3) Track all expenses,"
          \o " 4) Cut subscriptions you don't use, 5) Cook at home, 6) Use cashback "
          \o "apps, 7) Set specific savings goals."],
       [hit |-> (Contains(question_lower, "how to invest") \/
                  Contains(question_lower, "start investing")),
        answer |->
          "Investing basics: 1) Start with emergency fund (3-6 months expenses), "
          \o "2) Pay off high-interest debt first, 3) Learn about stocks, bonds, mut"
          \o "ual funds, ETFs, 4) Start with index funds (low risk, diversified), 5)"
          \o " Use apps like Vanguard, Fidelity, 6) Invest regularly (dollar-cost av"
          \o "eraging), 7) Think long-term (10+ years)."],
       [hit |-> (Contains(question_lower, "explain stocks") \/
                  Contains(question_lower, "what are stocks")),
        answer |->
          "Stocks are shares of ownership in a company. When you buy a stock, you"
          \o " own a small piece of that company. You make money through: 1) **Divid"
          \o "ends** (company profits shared with shareholders), 2) **Price apprecia"
          \o "tion** (sell stock for more than you paid). Risk: prices can go up or "
          \o "down based on company performance."],
       [hit |-> Contains(question_lower, "passive income"),
        answer |->
          "Passive income ideas: 1) Dividend stocks/index funds, 2) Rental proper"
          \o "ty or REITs, 3) Create online courses (Udemy, Teachable), 4) Write ebo"
          \o "oks (Amazon KDP), 5) Affiliate marketing, 6) Print-on-demand products,"
          \o " 7) YouTube ad revenue, 8) License your photos/music. Note: Most requi"
          \o "re initial effort!"],
       [hit |-> (Contains(question_lower, "handle breakup") \/
                  Contains(question_lower, "deal with breakup")),
        answer |->
          "Handling breakups: 1) Allow yourself to grieve, 2) Cut contact tempora"
          \o "rily (no stalking socials), 3) Lean on friends and family, 4) Focus on"
          \o " self-improvement, 5) Exercise and stay active, 6) Don't rush into new"
          \o " relationship, 7) Learn from the experience. Remember: time heals ever"
          \o "ything. @"],
       [hit |-> (Contains(question_lower, "make new friends") \/
                  Contains(question_lower, "how to make friends")),
        answer |->
          "To make new friends: 1) Join clubs/groups matching your interests, 2) "
          \o "Attend local events and meetups, 3) Be approachable and smile, 4) Star"
          \o "t small talk and ask questions, 5) Follow up (suggest hanging out), 6)"
          \o " Be genuine and authentic, 7) Volunteer or take classes. Quality > qua"
          \o "ntity!"],
       [hit |-> (Contains(question_lower, "become more social") \/
                  Contains(question_lower, "improve social skills")),
        answer |->
          "To become more social: 1) Start with small interactions (cashier, neig"
          \o "hbors), 2) Practice active listening, 3) Ask open-ended questions, 4) "
          \o "Share about yourself too, 5) Join group activities regularly, 6) Work "
          \o "on confidence and body language, 7) Be patient with yourself - it's a "
          \o "skill!"],
       [hit |-> (Contains(question_lower, "feel lonely") \/
                  Contains(question_lower, "why do i feel lonely")),
        answer |->
          "Feeling lonely is normal and common. To help: 1) Understand it's a sig"
          \o "nal to connect, not a flaw, 2) Reach out to friends/family (even a tex"
          \o "t helps), 3) Join communities with shared interests, 4) Volunteer or h"
          \o "elp others, 5) Develop self-compassion, 6) Consider therapy if persist"
          \o "ent. You're not alone in feeling lonely!"],
       [hit |-> (Contains(question_lower, "trust issues") \/
                  Contains(question_lower, "fix trust issues")),
        answer |->
          "To fix trust issues: 1) Understand the root cause (past hurt?), 2) Sta"
          \o "rt small - trust in low-risk situations, 3) Communicate openly with ot"
          \o "hers, 4) Work on self-trust first, 5) Give people benefit of the doubt"
          \o ", 6) Set healthy boundaries, 7) Consider therapy for deep issues. Trus"
          \o "t is rebuilt slowly."],
       [hit |-> (Contains(question_lower, "set boundaries") \/
                  Contains(question_lower, "how to set boundaries")),
        answer |->
          "Setting healthy boundaries: 1) Know your limits (what you're comfortab"
          \o "le with), 2) Be clear and direct ('I can't do that'), 3) Don't over-ex"
          \o "plain or apologize, 4) Start with small boundaries, 5) Be consistent i"
          \o "n enforcing them, 6) It's okay to say 'no', 7) Remove yourself if boun"
          \o "daries aren't respected."],
       [hit |-> (Contains(question_lower, "improve my relationship") \/
                  Contains(question_lower, "improve relationship")),
        answer |->
          "To improve relationships: 1) Communicate openly and honestly, 2) Liste"
          \o "n without judgment, 3) Spend quality time together, 4) Show appreciati"
          \o "on daily, 5) Resolve conflicts calmly, 6) Support each other's goals, "
          \o "7) Keep dating/romance alive, 8) Work on yourself too. Relationships n"
          \o "eed continuous effort!"],
       [hit |-> (Contains(question_lower, "talk to someone i like") \/
                  Contains(question_lower, "talk to crush")),
        answer |->
          "To talk to someone you like: 1) Start with friendly conversation (comm"
          \o "on interests), 2) Be yourself - don't pretend, 3) Ask questions and li"
          \o "sten, 4) Use humor and smile, 5) Compliment genuinely, 6) Suggest hang"
          \o "ing out casually, 7) Don't overthink - they're human too! Confidence c"
          \o "omes with practice."],
       [hit |-> (Contains(question_lower, "people lose interest") \/
                  Contains(question_lower, "why do people lose interest")),
        answer |->
          "People lose interest when: 1) No emotional connection built, 2) Too av"
          \o "ailable/no mystery, 3) Mismatched values or goals, 4) Better option ap"
          \o "peared, 5) They weren't ready for relationship, 6) Communication broke"
          \o " down, 7) They changed or grew apart. Often it's not about you - compa"
          \o "tibility matters!"],
       [hit |-> (Contains(question_lower, "stop worrying about others") \/
                  Contains(question_lower, "stop caring what others think")),
        answer |->
          "To stop worrying about others' opinions: 1) Remember most people think"
          \o " about themselves, not you, 2) You can't control others' thoughts, 3) "
          \o "Focus on your values, not theirs, 4) Criticism says more about them th"
          \o "an you, 5) Surround yourself with supporters, 6) Practice self-accepta"
          \o "nce, 7) Everyone gets judged - it's normal!"],
       [hit |-> (Contains(question_lower, "are aliens real") \/
                  Contains(question_lower, "do aliens exist")),
        answer |->
          "Whether aliens exist is unknown. Given billions of galaxies with billi"
          \o "ons of stars, many scientists believe life elsewhere is probable (Drak"
          \o "e Equation). However, we haven't found definitive proof yet. NASA is s"
          \o "earching via SETI, Mars rovers, and studying exoplanets. The universe "
          \o "is vast - we're still exploring!"],
       [hit |-> (Contains(question_lower, "is time travel possible") \/
                  Contains(question_lower, "can we time travel")),
        answer |->
          "According to Einstein's relativity, time travel to the future is theor"
          \o "etically possible (time dilation near speed of light or strong gravity"
          \o "). Going backwards is much harder - would require exotic physics like "
          \o "wormholes or closed timelike curves. Currently, we can't do either pra"
          \o "ctically. It remains science fiction for now!"],
       [hit |-> (Contains(question_lower, "meaning of happiness") \/
                  Contains(question_lower, "what is happiness")),
        answer |->
          "Happiness is a state of well-being and contentment. Research shows it "
          \o "comes from: 1) Strong relationships, 2) Meaningful work/purpose, 3) Gr"
          \o "atitude and positive mindset, 4) Health and physical activity, 5) Help"
          \o "ing others, 6) Personal growth, 7) Living in the present. It's a journ"
          \o "ey, not a destination!"],
       [hit |-> (Contains(question_lower, "purpose of life") \/
                  Contains(question_lower, "meaning of life")),
        answer |->
          "The purpose of life is a deeply personal question. Common answers: 1) "
          \o "Find happiness and minimize suffering, 2) Build meaningful relationshi"
          \o "ps, 3) Contribute to society, 4) Grow and learn continuously, 5) Creat"
          \o "e and experience beauty, 6) Leave the world better than you found it. "
          \o "Your purpose is what you decide it to be!"],
       [hit |-> (Contains(question_lower, "what happens after death") \/
                  Contains(question_lower, "after death")),
        answer |->
          "What happens after death is unknown and depends on beliefs. Science sa"
          \o "ys biological functions stop. Religions offer various views: reincarna"
          \o "tion, heaven/hell, spiritual realm, or reunion with the universe. Phil"
          \o "osophically, your impact lives on through people you've touched. It re"
          \o "mains life's greatest mystery."],
       [hit |-> (Contains(question_lower, "what is consciousness") \/
                  Contains(question_lower, "explain consciousness")),
        answer |->
          "Consciousness is awareness of yourself and your surroundings. Scientis"
          \o "ts debate whether it's just brain activity or something more. It invol"
          \o "ves perception, thoughts, emotions, and sense of 'self'. The 'hard pro"
          \o "blem of consciousness' asks: how does physical brain create subjective"
          \o " experience? Still unsolved!"],
       [hit |-> (Contains(question_lower, "explain the universe") \/
                  Contains(question_lower, "how big is the universe")),
        answer |->
          "The universe is everything that exists - all matter, energy, space, an"
          \o "d time. It's about 13.8 billion years old (Big Bang). Observable unive"
          \o "rse is 93 billion light-years across, with 2 trillion galaxies. It's e"
          \o "xpanding and mostly dark matter/energy. We're on a small planet in the"
          \o " Milky Way galaxy!"],
       [hit |-> (Contains(question_lower, "how big is infinity") \/
                  Contains(question_lower, "what is infinity")),
        answer |->
          "Infinity ({) isn't a number - it's a concept meaning 'without end'. In"
          \o " math, there are different sizes of infinity! Countable infinity (inte"
          \o "gers) vs uncountable infinity (real numbers). Your mind can't fully gr"
          \o "asp it because everything we experience is finite. It's beautifully pa"
          \o "radoxical!"],
       [hit |-> (Contains(question_lower, "why do humans dream") \/
                  Contains(question_lower, "why do we dream")),
        answer |->
          "Scientists believe we dream to: 1) Process emotions and memories, 2) C"
          \o "onsolidate learning, 3) Practice threat scenarios (evolutionary surviv"
          \o "al), 4) Clear mental clutter, 5) Solve problems creatively. Dreams occ"
          \o "ur in REM sleep. Fun fact: everyone dreams 4-6 times per night, but we"
          \o " forget most!"],
       [hit |-> (Contains(question_lower, "how to become successful") \/
                  Contains(question_lower, "become successful")),
        answer |->
          "Success formula: 1) Define YOUR success (not society's), 2) Set clear "
          \o "goals and plan, 3) Take consistent action daily, 4) Learn from failure"
          \o "s, 5) Build strong relationships, 6) Stay disciplined over motivated, "
          \o "7) Adapt and evolve, 8) Help others succeed. Success = small daily win"
          \o "s compounded over time!"],
       [hit |-> (Contains(question_lower, "help me prepare for exam") \/
                  Contains(question_lower, "prepare for exam")),
        answer |->
          "Exam preparation: 1) Start 2-4 weeks early, 2) Create study schedule b"
          \o "y topic, 3) Use active recall (practice tests), 4) Make concise notes/"
          \o "flashcards, 5) Study hardest subjects when fresh, 6) Take breaks (Pomo"
          \o "doro), 7) Sleep well before exam, 8) Review mistakes thoroughly. Last "
          \o "day: light review only!"],
       [hit |-> (Contains(question_lower, "how to write an assignment") \/
                  Contains(question_lower, "write assignment")),
        answer |->
          "Writing assignments: 1) Understand the question/rubric, 2) Research fr"
          \o "om credible sources, 3) Create outline (intro, body, conclusion), 4) W"
          \o "rite rough draft first, 5) Use topic sentences and transitions, 6) Cit"
          \o "e sources properly, 7) Edit and proofread, 8) Check formatting. Start "
          \o "early to avoid rush!"],
       [hit |-> (Contains(question_lower, "what career is best for me") \/
                  Contains(question_lower, "which career")),
        answer |->
          "To find your career: 1) List your strengths and passions, 2) Take care"
          \o "er assessments (16Personalities, StrengthsFinder), 3) Research growing"
          \o " industries (AI, healthcare, green tech), 4) Try internships or side p"
          \o "rojects, 5) Talk to people in fields you like, 6) Consider work-life b"
          \o "alance needs, 7) Start somewhere - careers evolve!"],
       [hit |-> (Contains(question_lower, "startup ideas") \/
                  Contains(question_lower, "business ideas")),
        answer |->
          "Startup ideas for 2025: 1) AI tools for specific niches, 2) Sustainabl"
          \o "e/eco products, 3) Online education platforms, 4) Health & wellness ap"
          \o "ps, 5) Remote work tools, 6) Local service apps (cleaning, repairs), 7"
          \o ") Subscription boxes, 8) Digital marketing agency. Best idea = solve a"
          \o " problem you've experienced!"],
       [hit |-> (Contains(question_lower, "write a business plan") \/
                  Contains(question_lower, "create business plan")),
        answer |->
          "Business plan outline: 1) **Executive Summary** (overview), 2) **Probl"
          \o "em & Solution**, 3) **Market Analysis** (target customers, competitors"
          \o "), 4) **Product/Service Details**, 5) **Marketing Strategy**, 6) **Fin"
          \o "ancial Projections** (costs, revenue), 7) **Team**, 8) **Milestones**."
          \o " Keep it clear and realistic!"],
       [hit |-> (Contains(question_lower, "marketing strategies") \/
                  Contains(question_lower, "marketing strategy")),
        answer |->
          "Marketing strategies: 1) **Content Marketing** (blogs, videos), 2) **S"
          \o "ocial Media** (Instagram, TikTok, LinkedIn), 3) **SEO** (rank on Googl"
          \o "e), 4) **Email Marketing**, 5) **Influencer partnerships**, 6) **Paid "
          \o "ads** (Google, Facebook), 7) **Referrals/word-of-mouth**. Start with f"
          \o "ree channels, then scale with ads!"],
       [hit |-> (Contains(question_lower, "improve linkedin") \/
                  Contains(question_lower, "linkedin profile")),
        answer |->
          "LinkedIn profile tips: 1) Professional photo (smile, plain background)"
          \o ", 2) Headline = what you do + value, 3) Summary tells your story, 4) L"
          \o "ist achievements (not just duties), 5) Get recommendations, 6) Share v"
          \o "aluable content regularly, 7) Engage with others' posts, 8) Custom URL"
          \o ". Think of it as your online resume!"],
       [hit |-> (Contains(question_lower, "build a portfolio") \/
                  Contains(question_lower, "create portfolio")),
        answer |->
          "Building a portfolio: 1) Choose 5-10 best projects (quality > quantity"
          \o "), 2) Show process, not just results, 3) Include case studies with pro"
          \o "blems/solutions, 4) Make it easy to navigate, 5) Add contact info prom"
          \o "inently, 6) Update regularly, 7) Get feedback before publishing. Use p"
          \o "latforms: Behance, GitHub, personal website."],
       [hit |-> (Contains(question_lower, "high salary job") \/
                  Contains(question_lower, "highest paying")),
        answer |->
          "High-paying careers 2025: **Tech**: Software engineer ($120k+), AI/ML "
          \o "engineer ($150k+), Cloud architect ($140k+). **Healthcare**: Surgeon ("
          \o "$400k+), Anesthesiologist ($350k+). **Business**: Investment banker ($"
          \o "200k+), Product manager ($150k+). **Law**: Corporate lawyer ($180k+). "
          \o "But passion + skills matter more than just salary!"],
       [hit |-> (Contains(question_lower, "recommend movies") \/
                  Contains(question_lower, "good movies")),
        answer |->
          "Top movies by genre: **Sci-Fi**: Interstellar, Inception, The Matrix. "
          \o "**Drama**: The Shawshank Redemption, Forrest Gump. **Action**: The Dar"
          \o "k Knight, Mad Max Fury Road. **Thriller**: Se7en, Shutter Island. **Co"
          \o "medy**: The Grand Budapest Hotel. **Animation**: Spider-Verse, Spirite"
          \o "d Away. What mood are you in?"],
       [hit |-> (Contains(question_lower, "recommend books") \/ Contains(question_lower, "good books")),
        answer |->
          "Must-read books: **Self-help**: Atomic Habits, How to Win Friends. **F"
          \o "iction**: 1984, To Kill a Mockingbird. **Business**: Zero to One, The "
          \o "Lean Startup. **Psychology**: Thinking Fast and Slow. **Philosophy**: "
          \o "Man's Search for Meaning. **Sci-Fi**: Dune, Ender's Game. What genre i"
          \o "nterests you?"],
       [hit |-> (Contains(question_lower, "recommend anime") \/ Contains(question_lower, "good anime")),
        answer |->
          "Top anime recommendations: **Action**: Attack on Titan, Demon Slayer, "
          \o "One Punch Man. **Adventure**: Fullmetal Alchemist Brotherhood, Hunter "
          \o "x Hunter. **Thriller**: Death Note, Steins;Gate. **Romance**: Your Nam"
          \o "e, A Silent Voice. **Slice of life**: Violet Evergarden. **Comedy**: S"
          \o "py x Family. New to anime? Start with Death Note or Your Name!"],
       [hit |-> (Contains(question_lower, "explain crypto") \/
                  Contains(question_lower, "what is crypto")),
        answer |->
          "Cryptocurrency is digital money using blockchain (secure, decentralize"
          \o "d ledger). Bitcoin was first (2009). You can buy, trade, or mine crypt"
          \o "o. Benefits: no banks, fast international transfers. Risks: volatile p"
          \o "rices, hacking, regulations unclear. Only invest what you can afford t"
          \o "o lose. Popular: Bitcoin, Ethereum, Solana."],
       [hit |-> (Contains(question_lower, "build credit score") \/
                  Contains(question_lower, "increase credit score")),
        answer |->
          "To build credit score: 1) Pay bills on time (35% of score), 2) Keep cr"
          \o "edit utilization under 30%, 3) Don't close old accounts (length matter"
          \o "s), 4) Mix credit types (card + loan), 5) Limit hard inquiries, 6) Che"
          \o "ck report for errors, 7) Become authorized user on good account. Takes"
          \o " 6-12 months to see improvement!"],
       [hit |-> (Contains(question_lower, "start freelancing") \/
                  Contains(question_lower, "how to freelance")),
        answer |->
          "Start freelancing: 1) Choose your skill (writing, design, coding, etc."
          \o "), 2) Create portfolio with 3-5 samples, 3) Sign up on Upwork, Fiverr,"
          \o " Freelancer, 4) Start with lower rates to get reviews, 5) Deliver exce"
          \o "llent work and communicate well, 6) Ask for testimonials, 7) Raise rat"
          \o "es as you grow. Consistency is key!"],
       [hit |-> (Contains(question_lower, "avoid financial mistakes") \/
                  Contains(question_lower, "financial mistakes")),
        answer |->
          "Avoid these financial mistakes: 1) Living beyond your means, 2) Not ha"
          \o "ving emergency fund, 3) High-interest debt (credit cards), 4) No retir"
          \o "ement savings, 5) Lifestyle inflation (spend more as you earn), 6) No "
          \o "budget/tracking, 7) Emotional investing, 8) Not learning about money. "
          \o "Financial education = wealth foundation!"],
       [hit |-> (Contains(question_lower, "explain mutual funds") \/
                  Contains(question_lower, "what are mutual funds")),
        answer |->
          "Mutual funds pool money from many investors to buy stocks, bonds, or o"
          \o "ther assets. Managed by professionals. Benefits: diversification, prof"
          \o "essional management, low minimum. Types: Equity (stocks), Debt (bonds)"
          \o ", Hybrid. Charges: expense ratio (0.5-2%). Good for beginners who want"
          \o " hands-off investing. Returns vary by fund type!"],
       [hit |-> ContainsAny(question_lower, {"2+2", "2 + 2", "what is 2+2", "what's 2+2"}),
        answer |->
          "4"],
       [hit |-> ContainsAny(question_lower, {"5+5", "5 + 5"}),
        answer |->
          "10"],
       [hit |-> Contains(question_lower, "capital of france"),
        answer |->
          "The capital of France is Paris."],
       [hit |-> Contains(question_lower, "capital of india"),
        answer |->
          "The capital of India is New Delhi."],
       [hit |-> (Contains(question_lower, "capital of usa") \/
                  Contains(question_lower, "capital of united states")),
        answer |->
          "The capital of the United States is Washington, D.C."],
       [hit |-> (Contains(question_lower, "what is python") /\ ~Contains(question_lower, "code")),
        answer |->
          "Python is a high-level, interpreted programming language known for its"
          \o " simplicity and readability. Created by Guido van Rossum in 1991, it's"
          \o " widely used in web development, data science, AI, and automation."],
       [hit |-> Contains(question_lower, "what is javascript"),
        answer |->
          "JavaScript is a programming language that makes websites interactive. "
          \o "It runs in web browsers and can also be used on servers with Node.js. "
          \o "It's one of the core technologies of the web."],
       [hit |-> Contains(question_lower, "what is html"),
        answer |->
          "HTML (HyperText Markup Language) is the standard language for creating"
          \o " web pages. It uses tags to structure content like headings, paragraph"
          \o "s, links, and images."],
       [hit |-> Contains(question_lower, "who invented python"),
        answer |->
          "Python was invented by Guido van Rossum and first released in 1991."],
       [hit |-> (Contains(question_lower, "what is ai") \/
                  Contains(question_lower, "what is artificial intelligence")),
        answer |->
          "Artificial Intelligence (AI) is technology that enables computers to p"
          \o "erform tasks that typically require human intelligence, such as learni"
          \o "ng, problem-solving, and decision-making."]
    >>

\* _check_simple_facts: the answer of the first entry that the question hits
FirstFact(facts) ==
    LET hits == {i \in 1..Len(facts) : facts[i].hit}
    IN  IF hits = {} THEN None
        ELSE facts[CHOOSE i \in hits : \A j \in hits : i <= j].answer

\* _check_simple_facts
_check_simple_facts(question_lower) == FirstFact(simple_facts(question_lower))

\* _fallback_response: capitals, in the order of the dict, with country.title()
capitals ==
    << [country |-> "india", title |-> "India", capital |-> "New Delhi"],
       [country |-> "france", title |-> "France", capital |-> "Paris"],
       [country |-> "usa", title |-> "Usa", capital |-> "Washington, D.C."],
       [country |-> "uk", title |-> "Uk", capital |-> "London"],
       [country |-> "japan", title |-> "Japan", capital |-> "Tokyo"],
       [country |-> "china", title |-> "China", capital |-> "Beijing"],
       [country |-> "germany", title |-> "Germany", capital |-> "Berlin"],
       [country |-> "italy", title |-> "Italy", capital |-> "Rome"] >>

\* the answer for the first country of `capitals` the query names, None when
\* it names none
CapitalAnswer(query_lower) ==
    LET hits == {i \in 1..Len(capitals) : Contains(query_lower, capitals[i].country)}
    IN  IF hits = {} THEN None
        ELSE LET c == capitals[CHOOSE i \in hits : \A j \in hits : i <= j]
             IN  "The capital of " \o c.title \o " is " \o c.capital \o "."

\* _fallback_response: the default text
DefaultFallback(query) ==
    "I understand you're asking: \""
        \o query
        \o "\"\n\nI can help with many topics! Try asking:\n{ **Programming**: \""
           \o "What is Python?\", \"Explain machine learning\"\n{ **Science**: \"How"
           \o " does photosynthesis work?\"\n{ **Geography**: \"Capital of India?\","
           \o " \"Who is the president?\"\n{ **Math**: \"What is a prime number?\", "
           \o "\"Explain Fibonacci\"\n{ **Learning**: \"What can I learn today?\", \""
           \o "How to start coding?\"\n{ **Recommendations**: \"What should I learn?"
           \o "\"\n\nCould you rephrase your question, or pick a topic you'd like to"
           \o " explore?"

\* a KnowledgeResponse
KnowledgeResponse(response, model_name) == [response |-> response, model_name |-> model_name]

\* knowledge_engine._fallback_response: the text
FallbackText(query) ==
    LET query_lower == Lower(query)
        response ==
            IF ContainsAny(query_lower, {"what can i learn", "what should i learn", "things to learn", "what to learn", "tell me what", "what could i learn"})
            THEN "Here are exciting things you can learn today:\n\n**Programmin"
                   \o "g & Tech:**\n{ Python - Great for beginners, used in AI, web "
                   \o "development, data science\n{ JavaScript - Build interactive w"
                   \o "ebsites and web apps\n{ Git & GitHub - Version control for yo"
                   \o "ur projects\n{ SQL - Manage and query databases\n\n**Data Sci"
                   \o "ence & AI:**\n{ Machine Learning basics - Understand AI funda"
                   \o "mentals\n{ Data Analysis with Pandas - Work with data in Pyth"
                   \o "on\n{ Data Visualization - Create charts with Matplotlib/Plot"
                   \o "ly\n\n**Web Development:**\n{ HTML & CSS - Build beautiful we"
                   \o "b pages\n{ React or Next.js - Modern web frameworks\n{ REST A"
                   \o "PIs - Connect frontend to backend\n\n**Soft Skills:**\n{ Prob"
                   \o "lem-solving with algorithms\n{ System design thinking\n{ Comm"
                   \o "unication & presentation skills\n\n**Pick one that interests "
                   \o "you and start with small projects! What catches your attentio"
                   \o "n?**"
            ELSE IF ((Contains(query_lower, "how to") \/ Contains(query_lower, "how do i") \/
                    Contains(query_lower, "how can i")) /\
                    Contains(query_lower, "learn"))
            THEN "To learn effectively:\n\n1. **Choose Your Path**: Pick one to"
                   \o "pic that interests you most\n2. **Start Small**: Learn basics"
                   \o " before advanced concepts\n3. **Practice Daily**: Even 30 min"
                   \o "utes makes a difference\n4. **Build Projects**: Apply what yo"
                   \o "u learn in real projects\n5. **Join Communities**: Connect wi"
                   \o "th others learning the same thing\n\n**Free Resources:**\n{ Y"
                   \o "ouTube tutorials\n{ FreeCodeCamp.org\n{ Codecademy\n{ Officia"
                   \o "l documentation\n{ GitHub projects\n\nWhat specific topic int"
                   \o "erests you most? I can give you a focused learning path!"
            ELSE IF ContainsAny(query_lower, {"recommend", "suggest", "advice", "should i"})
            THEN "I can provide guidance! Here are some thoughts:\n\n**For Lear"
                   \o "ning:** Start with your interests and build practical project"
                   \o "s\n**For Programming:** Python or JavaScript are great first "
                   \o "languages  \n**For Career:** Focus on problem-solving skills "
                   \o "and consistent practice\n**For Projects:** Start small, finis"
                   \o "h what you start, then scale up\n\nWhat specific area would y"
                   \o "ou like recommendations for? I can give more targeted advice!"
            ELSE IF (Contains(query_lower, "python") /\
                    ContainsAny(query_lower, {"what is", "define", "explain"}))
            THEN "Python is a high-level, interpreted programming language crea"
                   \o "ted by Guido van Rossum in 1991. It emphasizes code readabili"
                   \o "ty with its use of significant indentation. Python is widely "
                   \o "used for web development, data science, artificial intelligen"
                   \o "ce, scientific computing, and automation."
            ELSE IF (Contains(query_lower, "javascript") /\ ContainsAny(query_lower, {"what is", "define"}))
            THEN "JavaScript is a versatile, high-level programming language pr"
                   \o "imarily used to create interactive web pages. It runs in web "
                   \o "browsers and can also be used server-side with Node.js. It's "
                   \o "one of the core technologies of the World Wide Web alongside "
                   \o "HTML and CSS."
            ELSE IF (Contains(query_lower, "ai") \/ Contains(query_lower, "artificial intelligence"))
            THEN "Artificial Intelligence (AI) is the simulation of human intel"
                   \o "ligence by computer systems. It includes machine learning, na"
                   \o "tural language processing, computer vision, and robotics. AI "
                   \o "systems learn from data, recognize patterns, and make decisio"
                   \o "ns with minimal human intervention."
            ELSE IF (Contains(query_lower, "president") /\ Contains(query_lower, "india"))
            THEN "As of 2025, Droupadi Murmu is the President of India. She too"
                   \o "k office on July 25, 2022, becoming India's first tribal pres"
                   \o "ident and the second female president after Pratibha Patil."
            ELSE IF (Contains(query_lower, "prime minister") /\ Contains(query_lower, "india"))
            THEN "As of 2025, Narendra Modi is the Prime Minister of India. He "
                   \o "has been serving since May 26, 2014, and is currently in his "
                   \o "third term after winning the 2024 general elections."
            ELSE IF Contains(query_lower, "capital")
            THEN CapitalAnswer(query_lower)
            ELSE IF Contains(query_lower, "photosynthesis")
            THEN "Photosynthesis is the process by which green plants convert l"
                   \o "ight energy (usually from sunlight) into chemical energy stor"
                   \o "ed in glucose. The equation is: 6CO{ + 6H{O + light energy { "
                   \o "C{H{{O{ + 6O{. Plants absorb carbon dioxide and water, and pr"
                   \o "oduce glucose and oxygen."
            ELSE IF Contains(query_lower, "fibonacci")
            THEN "The Fibonacci sequence is a series of numbers where each numb"
                   \o "er is the sum of the two preceding ones: 0, 1, 1, 2, 3, 5, 8,"
                   \o " 13, 21, 34, 55, 89... It appears frequently in nature, art, "
                   \o "and mathematics. The sequence was introduced to Western mathe"
                   \o "matics by Leonardo Fibonacci in 1202."
            ELSE IF (Contains(query_lower, "armstrong") /\ Contains(query_lower, "code"))
            THEN "Here's Python code to check Armstrong numbers:\n\n}}}python\n"
                   \o "def is_armstrong(n):\n    # Convert number to string to get d"
                   \o "igits\n    digits = str(n)\n    power = len(digits)\n    \n  "
                   \o "  # Calculate sum of digits raised to power\n    total = sum("
                   \o "int(digit)**power for digit in digits)\n    \n    # Check if "
                   \o "sum equals original number\n    return total == n\n\n# Test e"
                   \o "xamples\nprint(is_armstrong(153))   # True: 1{+5{+3{ = 153\np"
                   \o "rint(is_armstrong(9474))  # True: 9{+4{+7{+4{ = 9474\nprint(i"
                   \o "s_armstrong(123))   # False\n}}}"
            ELSE None
    IN  IF response = None THEN DefaultFallback(query) ELSE response

\* knowledge_engine._fallback_response
_fallback_response(query) == KnowledgeResponse(FallbackText(query), "fallback")

(***************************************************************************)
(* intelligent_reply_engine: the words and the texts of the handlers       *)
(***************************************************************************)
\* _handle_emotional_support: high_intensity_words
high_intensity_words ==
    { "very", "extremely", "really", "so", "deeply", "terribly", "completely", "depress",
      "devastated", "horrible", "terrible", "awful", "worst", "unbearable", "can't take",
      "breaking down", "crying", "tears" }

\* _handle_emotional_support: distress_contexts
distress_contexts ==
    { "no one understands", "nobody cares", "all alone", "want to give up",
      "can't do this", "too much", "unfair", "wrongly", "blamed for", "not my fault",
      "innocent", "didn't do", "scolded", "punished" }

\* _fallback_emotional_support: fallback_templates
fallback_templates ==
    [emotion \in {"sadness", "anger", "fear"} |->
        [intensity_level \in {"high", "medium", "low"} |->
            IF emotion = "sadness" /\ intensity_level = "high"
            THEN << "I can see you're really struggling right now. Your feelings "
                    \o "are completely valid, and it's okay to feel this way. You're"
                    \o " stronger than you think, and I'm here to support you throug"
                    \o "h this. What would help you feel better right now?",
                    "I hear you, and I want you to know that you're not alone in "
                    \o "this. This is a difficult moment, but it doesn't define you."
                    \o " You have the strength to get through this, and I believe in"
                    \o " you. Want to talk about what's going on?" >>
            ELSE IF emotion = "sadness" /\ intensity_level = "medium"
            THEN << "I can tell something's bothering you, and I'm here to listen"
                    \o ". It's okay to feel down sometimes - it's part of being huma"
                    \o "n. Let's work through this together. What's on your mind?",
                    "You seem like you're going through a tough time. Remember th"
                    \o "at difficult moments help us grow. I'm here to support you. "
                    \o "How can I help?" >>
            ELSE IF emotion = "sadness" /\ intensity_level = "low"
            THEN << "Something seems to be on your mind. I'm here if you want to "
                    \o "talk about it. What's going on?",
                    "I'm sensing you might be feeling a bit off. Want to share wh"
                    \o "at's bothering you?" >>
            ELSE IF emotion = "anger" /\ intensity_level = "high"
            THEN << "I can feel your frustration, and it's completely understanda"
                    \o "ble to feel this way. Let's take a moment together and think"
                    \o " about how to handle this situation constructively. What hap"
                    \o "pened?",
                    "You're clearly upset, and that's okay. Your feelings matter."
                    \o " Let's talk through this and figure out the best way forward"
                    \o ". I'm here to help." >>
            ELSE IF emotion = "anger" /\ intensity_level = "medium"
            THEN << "I can see you're frustrated. It's okay to feel annoyed somet"
                    \o "imes. Let's work through this together. What's bothering you"
                    \o "?",
                    "Sounds like something really got to you. I'm here to listen "
                    \o "and help you process this. What's going on?" >>
            ELSE IF emotion = "anger" /\ intensity_level = "low"
            THEN << "Something seems to have irritated you. Want to talk about it"
                    \o "?",
                    "I'm picking up on some frustration. How can I help?" >>
            ELSE IF emotion = "fear" /\ intensity_level = "high"
            THEN << "I can sense you're feeling really anxious right now. It's ok"
                    \o "ay to be scared - it means you care. You're braver than you "
                    \o "think, and I'm here with you. Let's break this down together"
                    \o ". What's worrying you?",
                    "I hear the worry in your words. Fear is natural, but you don"
                    \o "'t have to face it alone. You've got this, and I'm here to s"
                    \o "upport you. Want to talk through what's making you anxious?" >>
            ELSE IF emotion = "fear" /\ intensity_level = "medium"
            THEN << "It sounds like something's making you a bit anxious. That's "
                    \o "completely normal. Let's work through this worry together. W"
                    \o "hat's on your mind?",
                    "I can sense some concern here. It's okay to feel uncertain s"
                    \o "ometimes. I'm here to help you feel more confident. What's b"
                    \o "othering you?" >>
            ELSE IF emotion = "fear" /\ intensity_level = "low"
            THEN << "Something seems to be causing a bit of worry. Want to talk i"
                    \o "t through?",
                    "I'm sensing some mild concern. How can I help ease your mind"
                    \o "?" >>
            ELSE << >>]]

\* _fallback_emotional_support: the templates for any other emotion
default_support_templates ==
    << "I'm here for you. Your feelings matter, and I want to understand what yo"
        \o "u're going through.",
      "I hear you, and I'm here to support you. Want to talk more about what's on your mind?" >>

\* _handle_knowledge_request: practical_structured_keywords
practical_structured_keywords ==
    { "application", "resume", "cv", "interview", "job", "career", "why did you choose",
      "why choose", "form", "fill", "include on", "what to write", "how to answer",
      "what should i say" }

\* _handle_knowledge_request: ai_disclaimers
ai_disclaimers ==
    << "As an AI language model", "I'm an AI assistant",
      "I am a highly advanced artificial intelligence", "As an artificial intelligence" >>

\* _handle_knowledge_request: inappropriate_indicators
inappropriate_indicators ==
    { "user question:", "assistant answer:", "america", "marrying", "woman", "ass",
      "tizzy", "insulting", "cultural significance" }

\* _handle_knowledge_request: jokes
jokes ==
    << "Why don't scientists trust atoms? Because they make up everything! {{{{",
      "What do you call a fake noodle? An impasta! {{",
      "Why did the scarecrow win an award? He was outstanding in his field! {{{{",
      "What's a computer's favorite snack? Microchips! {{{{{{",
      "Why don't skeletons fight each other? They don't have the guts! {{{{" >>

clean_joke_intro ==
    "Here's a clean joke for you:\n\n"

\* _handle_knowledge_request: the words put before the answer for a negative emotion
emotional_awareness ==
    [emotion \in {"anger", "fear", "sadness"} |->
        IF emotion = "anger" THEN "I understand you might be frustrated. Let me help you with that:\n\n"
        ELSE IF emotion = "fear" THEN "I can sense some concern. Here's what I can share:\n\n"
        ELSE "I'm here to help. Let me share what I know:\n\n"]

\* _handle_hybrid_response: the emotional prefixes taken out of the request
emotional_prefixes ==
    << "in this happy mode", "in this mood", "feeling good", "excited to", "i'm happy" >>

\* _handle_hybrid_response: requests too vague to answer
vague_requests ==
    { "something", "something new", "new things", "" }

\* _handle_hybrid_response: the clarification asked of a joyful user
joy_clarification ==
    "I LOVE your energy! {{{{ You're in such a great mood to learn - that's when "
    \o "learning is most fun!\n\nWhat specifically interests you right now?\n{{{ Pro"
    \o "gramming: Python, JavaScript, AI?\n{{{ Science: Physics, Biology, Space?\n{{"
    \o "{ Skills: Cooking, Art, Music?\n{{{ Languages: Spanish, French, Japanese?\n{"
    \o "{{ Anything else you're curious about?\n\nI'm excited to explore it with you"
    \o "! {{{{"

\* _handle_hybrid_response: the clarification asked of any other user
emotion_clarification(emotion) ==
    "I can sense you're feeling "
    \o emotion
    \o " and want to learn something. That's wonderful! {{{{\n\nWhat topic would"
        \o " you like to explore? I can help with:\n{{{ Technology & Programming\n{{"
        \o "{ Science & Nature\n{{{ Arts & Culture\n{{{ Skills & Hobbies\n{{{ Or any"
        \o "thing else!\n\nWhat catches your interest?"

\* _handle_hybrid_response: emotion_intro
emotion_intro(emotion) ==
    IF emotion = "joy" THEN "I love your enthusiasm! Let's dive in! {{{{\n\n"
    ELSE IF emotion = "love" THEN "I can feel your passion! This is great! {{{{\n\n"
    ELSE IF emotion = "surprise" THEN "Ooh, interesting question! {{{{\n\n"
    ELSE IF emotion = "sadness" THEN "I'm here to help you learn. {{{{\n\n"
    ELSE IF emotion = "fear" THEN "Don't worry, I'll explain this clearly. {{{\n\n"
    ELSE IF emotion = "anger" THEN "Let me help you understand this. {{{{\n\n"
    ELSE ""

\* _handle_hybrid_response: the closing for a joyful user
joy_closing ==
    "\n\nKeep that positive energy going - it's the best way to learn! {{{"

\* _handle_casual_chat: simple_greetings
simple_greetings ==
    { "hi", "hello", "hey", "sup", "yo" }

\* _handle_casual_chat: quick_greets
quick_greets ==
    << "Hey! What's on your mind?", "Hi there! How can I help?",
      "Hello! I'm here for you." >>

\* _handle_casual_chat: learning_keywords
learning_keywords ==
    { "want to learn", "learn something", "teach me", "i want to", "what should i learn" }

\* _handle_casual_chat: learning_responses
learning_responses ==
    << "That's awesome! Here are some exciting things you can learn:\n\n**Tech &"
        \o " Programming:**\n{{{ Python basics - great for beginners!\n{{{ Web devel"
        \o "opment (HTML, CSS, JavaScript)\n{{{ Data science fundamentals\n\n**Creat"
        \o "ive Skills:**\n{{{ Digital art & design\n{{{ Music production\n{{{ Creat"
        \o "ive writing\n\n**Personal Growth:**\n{{{ New language (Spanish, French, "
        \o "Japanese)\n{{{ Photography techniques\n{{{ Cooking & baking\n\nWhat inte"
        \o "rests you most? I can give you specific tips! {{{{",
      "I love your enthusiasm for learning! Here are some popular topics:\n\n{{"
        \o "{{ **Knowledge:**\n{{{ Science & nature\n{{{ History & culture\n{{{ Psyc"
        \o "hology & mindfulness\n\n{{{{ **Technology:**\n{{{ Coding & programming\n"
        \o "{{{ AI & machine learning\n{{{ Cybersecurity basics\n\n{{{{ **Creative:*"
        \o "*\n{{{ Drawing & painting\n{{{ Music (instrument or theory)\n{{{ Video e"
        \o "diting\n\n{{{ Pick one and let me know - I'll help you get started!" >>

\* _handle_casual_chat: emotional_keywords
distress_keywords ==
    { "depress", "sad", "hurt", "scared", "worried", "anxious", "crying", "devastated",
      "horrible", "terrible", "awful", "lonely", "alone", "hopeless", "helpless",
      "worthless", "furious", "frustrated" }

\* _handle_default_response
default_response ==
    "I want to make sure I understand you correctly. Could you help me by sharing"
    \o " a bit more about what you're looking for? I'm here to help with information"
    \o ", provide support, or just have a conversation - whatever would be most help"
    \o "ful for you right now."

\* _generate_structured_fallback: enhanced_prompt
enhanced_prompt(context_summary, original_message) ==
    "The user is asking a practical question about applications, forms, or ca"
        \o "reer advice."
    \o context_summary
    \o "\n\nTheir current question: \""
    \o original_message
    \o "\"\n\nYou MUST provide a STRUCTURED, PROFESSIONAL answer with SPECIFIC O"
        \o "PTIONS:\n\nFormat:\n\n**Option 1: [Specific Approach Title]**\nExplanati"
        \o "on: [2-3 sentences about this approach]\n\nExample Answer:\n\"[Word-for-"
        \o "word professional text they can copy directly into their application]\"\n"
        \o "\n**Option 2: [Different Approach Title]**\nExplanation: [2-3 sentences]"
        \o "\n\nExample Answer:\n\"[Another ready-to-use professional response]\"\n\n"
        \o "**Option 3: [Another Approach]**\nExplanation: [2-3 sentences]\n\nExampl"
        \o "e Answer:\n\"[Third option they can use]\"\n\nKey Requirements:\n- Ident"
        \o "ify and reference the SPECIFIC company/program mentioned in the conversa"
        \o "tion (could be Google, Amazon, Microsoft, any university, etc.)\n- Give "
        \o "them ACTUAL TEXT they can copy with the correct company name\n- Be profe"
        \o "ssional, clear, and actionable\n- Each option should be meaningfully dif"
        \o "ferent\n- Tailor reasons to that specific company/program's strengths\n\n"
        \o "End with: \"Would you like me to customize any of these based on your ba"
        \o "ckground?\"\n\nNow generate this structured response:"

\* _generate_structured_fallback: the guidance returned when the handler raises
minimal_guidance(original_message) ==
    "I understand you're asking about: \""
    \o original_message
    \o "\"\n\nLet me help you with that. Could you provide a bit more detail abo"
        \o "ut:\n{{{ What type of application or form this is for?\n{{{ What specifi"
        \o "c question or field you need help with?\n\nThis will help me give you th"
        \o "e most relevant, specific answer!"

\* _get_gender_personality: greeting_examples
greeting_examples(gender) ==
    IF gender = "male"
    THEN << "Hey! What's up?", "Hi there! How's it going?", "What's on your mind?", "Hey, how can I help?" >>
    ELSE IF gender = "female"
    THEN << "Hi there! How are you feeling today?",
            "Hello! I'm here for you. What's on your mind?",
            "Hi! How has your day been?",
            "Hey! I'd love to hear how you're doing." >>
    ELSE << "Hi! How are you?",
            "Hello! What can I help you with?",
            "Hey there! How's everything going?",
            "Hi! What's on your mind?" >>

\* _enhance_with_personality: the sentence added for a verbose profile
verbose_addition ==
    " I understand this might be important to you, and I'm here to help however I"
    \o " can."

\* _enhance_with_personality: proactive_additions
proactive_additions ==
    << " Would you like to explore this further?",
      " Is there anything specific you'd like to know more about?",
      " Let me know if you need any clarification!",
      " Feel free to ask if you have any questions.",
      " What would you like to talk about next?" >>

\* _error_response
error_message ==
    "I apologize, but I'm having some technical difficulties right now. Please tr"
    \o "y again in a moment, or let me know if there's anything else I can help you "
    \o "with."

\* knowledge_engine.ask: dialogue_prefixes
dialogue_prefixes ==
    << "Assistant:", "User:", "Human:", "AI:", "EdgeSoul:" >>

\* knowledge_engine.ask: the markers of a continued dialogue
dialogue_markers ==
    << "\nUser:", "\nAssistant:", "\nHuman:", "\nAI:" >>

\* knowledge_engine.ask: bad_response_indicators
bad_response_indicators ==
    { "I'm EdgeSoul, a knowledgeable and helpful AI assistant",
      "Provide accurate, factual, and concise answers", "system_instructions",
      "As an AI language model", "I'm an AI assistant" }

\* hybrid_chat_engine.process_message: the reply to an empty message
hybrid_prompt_for_input ==
    "I'm here! What's on your mind? {{{{"

\* hybrid_chat_engine._error_response
hybrid_error_message ==
    "I apologize, but I'm having some technical difficulties right now. Please tr"
    \o "y again in a moment, or let me know if there's anything else I can help you "
    \o "with."

\* main.v2_chat_endpoint: the reply when the handler raises
v2_error_message ==
    "I'm having some trouble processing that. Could you try again?"

(***************************************************************************)
(* knowledge_engine: initialize and ask                                    *)
(***************************************************************************)
\* settings.OLLAMA_MODEL_QUALITY, the model every request is sent to
OLLAMA_MODEL_QUALITY == "phi3:mini"
\* an answer of more words than this is dropped
MaxAnswerWords == 2000

\* what the generation backend does during one request: it is down (no
\* connection), or it lists its models and then the generation times out,
\* answers with a status other than 200, or streams an answer
Backends ==
    [status : {"down", "timeout", "error"}, answer : {""}]
        \cup [status : {"ok"}, answer : Answers]

\* knowledge_engine.initialize: is_available once it has run
initialize(available, backend) == available \/ backend.status # "down"

\* is_ready() or initialize(), as the handlers call them before ask
Ready(available, backend) == IF available THEN available ELSE initialize(available, backend)

\* Python: re.sub(r'<\|[^|]+\|>', '', s)
RECURSIVE RemoveSpecialTokens(_)
RemoveSpecialTokens(s) ==
    LET opens == {i \in 1..(Len(s) - 1) : SubSeq(s, i, i + 1) = "<|"}
        \* the end of the token that opens at i, 0 when none does
        EndOf(i) ==
            LET bars == {j \in (i + 2)..Len(s) : SubSeq(s, j, j) = "|"}
                bar == IF bars = {} THEN 0 ELSE CHOOSE j \in bars : \A k \in bars : j <= k
            IN  IF bar > i + 2 /\ bar < Len(s) /\ SubSeq(s, bar + 1, bar + 1) = ">"
                THEN bar + 1 ELSE 0
        matches == {i \in opens : EndOf(i) # 0}
    IN  IF matches = {} THEN s
        ELSE LET i == CHOOSE m \in matches : \A k \in matches : m <= k
             IN  SubSeq(s, 1, i - 1) \o RemoveSpecialTokens(SubSeq(s, EndOf(i) + 1, Len(s)))

\* ask: for prefix in dialogue_prefixes: a leading prefix is cut off
RECURSIVE StripDialoguePrefixes(_, _)
StripDialoguePrefixes(answer, prefixes) ==
    IF prefixes = <<>> THEN answer
    ELSE StripDialoguePrefixes(
             IF StartsWith(answer, Head(prefixes))
             THEN Strip(SubSeq(answer, Len(Head(prefixes)) + 1, Len(answer)))
             ELSE answer,
             Tail(prefixes))

\* ask: an answer that goes on with the dialogue is cut at the first marker,
\* in the order of the markers, that it holds
FirstResponse(answer) ==
    LET held == {i \in 1..Len(dialogue_markers) : Contains(answer, dialogue_markers[i])}
    IN  IF ContainsAny(answer, {"\nUser:", "\nAssistant:", "\nHuman:"})
        THEN Strip(BeforeFirst(answer,
                 dialogue_markers[CHOOSE i \in held : \A j \in held : i <= j]))
        ELSE answer

\* ask: the answer streamed by the backend, cleaned
CleanAnswer(answer) ==
    FirstResponse(StripDialoguePrefixes(Strip(RemoveSpecialTokens(Strip(answer))),
                                        dialogue_prefixes))

\* what ask returns, with the number of generation requests it has sent
Asked(knowledge_response, generations) ==
    [response |-> knowledge_response.response,
     model_name |-> knowledge_response.model_name,
     generations |-> generations]

\* a request shorter than this is too vague to answer
MinRequestLen == 10

\* _handle_hybrid_response: for prefix in [...]: learning_request =
\* learning_request.lower().replace(prefix, '').strip()
RECURSIVE WithoutPrefixes(_, _)
WithoutPrefixes(learning_request, prefixes) ==
    IF prefixes = <<>> THEN learning_request
    ELSE WithoutPrefixes(Strip(Replace(Lower(learning_request), Head(prefixes), "")),
                         Tail(prefixes))

\* _handle_hybrid_response: the request it puts to the knowledge engine
learning_request(message) ==
    LET clean == WithoutPrefixes(message, emotional_prefixes)
        topic == IF Contains(clean, "want to learn")
                 THEN Strip(AfterLast(clean, "want to learn")) ELSE clean
    IN  IF Contains(topic, "teach me") THEN Strip(AfterLast(topic, "teach me")) ELSE topic

\* the questions the requests put to the knowledge engine while no context
\* is stored: the message, the request the hybrid handler cuts out of it and
\* the prompt of the structured fallback
Questions ==
    ChatMessages \cup {learning_request(m) : m \in ChatMessages}
        \cup {enhanced_prompt("", m) : m \in ChatMessages}

\* _check_simple_facts(question.lower()) and _fallback_response(question),
\* computed once for these questions
SimpleFact == [question \in Questions |-> _check_simple_facts(Lower(question))]
FallbackResponse == [question \in Questions |-> _fallback_response(question)]
CleanedAnswer == [answer \in Answers \cup {""} |-> CleanAnswer(answer)]

\* _check_simple_facts(message.lower().strip()), as the casual handler calls
\* it, computed once for the messages of the requests
CasualFact == [message \in ChatMessages |-> _check_simple_facts(Strip(Lower(message)))]

\* knowledge_engine.ask, once the instant-answer table (fallback), the fallback
\* response and the cleaned answer of the backend are known
Answer(available, backend, fallback, fallback_response, answer) ==
    IF ~available THEN Asked(fallback_response, 0)
    ELSE IF fallback # None
    THEN Asked(KnowledgeResponse(fallback, "instant_knowledge_base"), 0)
    ELSE IF backend.status # "ok" THEN Asked(fallback_response, 1)
    ELSE IF ContainsAny(answer, bad_response_indicators)
    THEN Asked(fallback_response, 1)
    ELSE IF WordCount(answer) > MaxAnswerWords
    THEN Asked(fallback_response, 1)
    ELSE Asked(KnowledgeResponse(answer, OLLAMA_MODEL_QUALITY), 1)

\* knowledge_engine.ask
ask(available, backend, question) ==
    IF question \in Questions
    THEN Answer(available, backend, SimpleFact[question], FallbackResponse[question],
                CleanedAnswer[backend.answer])
    ELSE Answer(available, backend, _check_simple_facts(Lower(question)),
                _fallback_response(question), CleanedAnswer[backend.answer])

(***************************************************************************)
(* intelligent_reply_engine: the handlers                                  *)
(***************************************************************************)
\* random.choice(q), for the index random picks in this request
Choice(q, pick) == q[(pick % Len(q)) + 1]

\* what a handler returns: whether it raised, its reply_data, is_available
\* once it has run and the number of generation requests it has sent
Handled(reply_data, available, generations) ==
    [raised |-> FALSE, reply_data |-> reply_data, is_available |-> available,
     generations |-> generations]
HandlerRaised(available) ==
    [raised |-> TRUE, reply_data |-> [type |-> "raised"], is_available |-> available,
     generations |-> 0]

\* the intensities that force a level, and the levels' limits
HighIntensity == 75
MediumIntensity == 50
MediumLimit == 40
LongMessageWords == 15

\* _handle_emotional_support: intensity_level
intensity_level(message, emotion_result) ==
    LET message_lower == Lower(message)
        intensifier_count ==
            Cardinality({w \in high_intensity_words : Contains(message_lower, w)})
        distress_count ==
            Cardinality({w \in distress_contexts : Contains(message_lower, w)})
        intensity ==
            IF intensifier_count >= 2 \/ distress_count >= 1
            THEN FracMax(Frac(HighIntensity, 1), emotion_result.intensity)
            ELSE IF intensifier_count = 1 \/ WordCount(message) > LongMessageWords
            THEN FracMax(Frac(MediumIntensity, 1), emotion_result.intensity)
            ELSE emotion_result.intensity
    IN  IF FracLess(Frac(HighIntensity, 1), intensity) THEN "high"
        ELSE IF FracLess(Frac(MediumLimit, 1), intensity) THEN "medium"
        ELSE "low"

\* _fallback_emotional_support
_fallback_emotional_support(emotion, level, pick) ==
    LET responses == IF emotion \in DOMAIN fallback_templates
                     THEN fallback_templates[emotion][level]
                     ELSE default_support_templates
    IN  [text |-> Choice(responses, pick), type |-> "emotional_support",
         model |-> "template_fallback", emotion_addressed |-> emotion,
         intensity_level |-> level]

\* _handle_emotional_support, once the level and the answer are known
EmotionalSupport(emotion, level, ready, knowledge_response, fault, pick) ==
    IF fault = "handler_context"
    THEN Handled(_fallback_emotional_support(emotion, level, pick), ready, 0)
    ELSE Handled([text |-> knowledge_response.response, type |-> "emotional_support",
                  model |-> "ollama_empathetic", emotion_addressed |-> emotion,
                  intensity_level |-> level],
                 ready, knowledge_response.generations)

\* _handle_emotional_support.  The profile and the stored context only shape
\* the prompt; a failing read of the context is caught like a failing
\* generation and answered from the templates.
_handle_emotional_support(message, emotion_result, available, backend, fault, pick) ==
    EmotionalSupport(emotion_result.primary, intensity_level(message, emotion_result),
                     Ready(available, backend),
                     ask(Ready(available, backend), backend, message), fault, pick)

\* lengths the knowledge handler compares an answer with
StructuredMinLen == 150
JokeMaxLen == 300
\* the stored pairs and the characters of a stored reply that go into a prompt
PromptPairs == 3
PromptReplyLen == 200

\* _generate_structured_fallback: context_lines, for the pairs given
RECURSIVE context_lines(_)
context_lines(messages) ==
    IF messages = <<>> THEN ""
    ELSE "User: " \o Head(messages).user \o "\n"
            \o "Assistant: " \o Left(Head(messages).assistant, PromptReplyLen) \o "..."
            \o (IF Len(messages) > 1 THEN "\n" ELSE "")
            \o context_lines(Tail(messages))

\* _generate_structured_fallback, once the answer is known
StructuredFallback(original_message, knowledge_response, fault) ==
    IF fault = "handler_context"
    THEN [text |-> minimal_guidance(original_message), generations |-> 0]
    ELSE [text |-> knowledge_response.response,
          generations |-> knowledge_response.generations]

\* _generate_structured_fallback: a second question put to the knowledge
\* engine, or the guidance when reading the stored context raises
_generate_structured_fallback(original_message, contexts, u, available, backend, fault) ==
    LET rows == {r \in contexts : r.user_id = u}
        recent == IF rows = {} THEN <<>> ELSE Suffix(First(rows).messages, PromptPairs)
        context_summary ==
            IF recent = <<>> THEN ""
            ELSE "\n\nCONVERSATION CONTEXT:\n" \o context_lines(recent) \o "\n"
    IN  StructuredFallback(original_message,
            ask(available, backend, enhanced_prompt(context_summary, original_message)),
            fault)

\* _handle_knowledge_request: for disclaimer in ai_disclaimers, an answer that
\* holds it is cut to what follows its first full stop
RECURSIVE WithoutDisclaimers(_, _)
WithoutDisclaimers(response_text, disclaimers) ==
    IF disclaimers = <<>> THEN response_text
    ELSE WithoutDisclaimers(
             IF Contains(response_text, Head(disclaimers)) /\ Contains(response_text, ".")
             THEN Strip(AfterFirst(response_text, "."))
             ELSE response_text,
             Tail(disclaimers))

\* _handle_knowledge_request, once the text of the answer is known
KnowledgeReply(message, emotion_result, ready, pick, model_name, response_text, generations) ==
    LET emotion == emotion_result.primary
        filtered ==
            IF ContainsAny(Lower(message), {"joke", "funny"})
            THEN IF \/ ContainsAny(Lower(response_text), inappropriate_indicators)
                    \/ Len(response_text) > JokeMaxLen
                    \/ Contains(response_text, "User Question:")
                 THEN clean_joke_intro \o Choice(jokes, pick)
                 ELSE response_text
            ELSE IF /\ FracLess(Frac(70, 100), emotion_result.confidence)
                    /\ emotion \in {"anger", "fear", "sadness"}
            THEN emotional_awareness[emotion] \o response_text
            ELSE response_text
    IN  Handled([text |-> filtered, type |-> "knowledge_focused", model |-> model_name,
                 confidence |-> "high", sources |-> "ollama_ai"],
                ready, generations)

\* _handle_knowledge_request, once the answer is known: an answer too short
\* for a practical request is replaced by the structured fallback
KnowledgeAnswer(message, emotion_result, ready, pick, knowledge_response, answered, structured) ==
    IF /\ ContainsAny(Lower(message), practical_structured_keywords)
       /\ Len(answered) < StructuredMinLen
    THEN KnowledgeReply(message, emotion_result, ready, pick,
                        knowledge_response.model_name, structured.text,
                        knowledge_response.generations + structured.generations)
    ELSE KnowledgeReply(message, emotion_result, ready, pick,
                        knowledge_response.model_name, answered,
                        knowledge_response.generations)

\* _handle_knowledge_request, once the knowledge engine is ready
KnowledgeRequest(message, emotion_result, contexts, u, ready, backend, fault, pick, knowledge_response) ==
    KnowledgeAnswer(message, emotion_result, ready, pick, knowledge_response,
                    WithoutDisclaimers(knowledge_response.response, ai_disclaimers),
                    _generate_structured_fallback(message, contexts, u, ready, backend,
                                                  fault))

\* _handle_knowledge_request.  The stored context is read with an await on a
\* call that is not awaitable, which always raises and is caught, so the
\* question put to the knowledge engine is the message itself.
_handle_knowledge_request(message, emotion_result, contexts, u, available, backend, fault, pick) ==
    KnowledgeRequest(message, emotion_result, contexts, u, Ready(available, backend),
                     backend, fault, pick,
                     ask(Ready(available, backend), backend, message))

\* _handle_hybrid_response, once the answer is known
HybridAnswer(emotion, available, knowledge_response) ==
    Handled([text |-> emotion_intro(emotion) \o knowledge_response.response
                          \o (IF emotion = "joy" THEN joy_closing ELSE ""),
             type |-> "hybrid", model |-> knowledge_response.model_name,
             emotional_component |-> emotion,
             knowledge_component |-> "emotion_aware_learning"],
            available, knowledge_response.generations)

\* _handle_hybrid_response, once the request is cut out of the message
HybridRequest(emotion, request, available, backend) ==
    IF Len(request) < MinRequestLen \/ request \in vague_requests
    THEN IF emotion = "joy"
         THEN Handled([text |-> joy_clarification, type |-> "hybrid",
                       model |-> "emotion_aware_clarification",
                       emotional_component |-> "joy_acknowledgment",
                       knowledge_component |-> "clarification_needed"],
                      available, 0)
         ELSE Handled([text |-> emotion_clarification(emotion), type |-> "hybrid",
                       model |-> "emotion_aware_clarification"],
                      available, 0)
    ELSE HybridAnswer(emotion, available, ask(available, backend, request))

\* _handle_hybrid_response (it asks without making the knowledge engine ready)
_handle_hybrid_response(message, emotion_result, available, backend) ==
    HybridRequest(emotion_result.primary, learning_request(message), available, backend)

\* the profile a handler holds when reading it raised: Python's None
NoProfile == [user_id |-> None]

\* _handle_casual_chat, once the instant-answer table has been looked up
CasualChat(message, emotion_result, profile, available, backend, fault, pick, message_lower, simple_answer, response_data) ==
    IF simple_answer # None
    THEN Handled([text |-> simple_answer, type |-> "casual_chat",
                  model |-> "instant_knowledge_base"], available, 0)
    ELSE IF message_lower \in simple_greetings /\ WordCount(message) = 1
    THEN IF profile # NoProfile
         THEN Handled([text |-> Choice(greeting_examples(profile.gender), pick),
                       type |-> "casual_chat", model |-> "gender_template"],
                      available, 0)
         ELSE Handled([text |-> Choice(quick_greets, pick), type |-> "casual_chat",
                       model |-> "instant_template"], available, 0)
    ELSE IF /\ ContainsAny(message_lower, learning_keywords)
            /\ ~Contains(message_lower, "code")
            /\ ~Contains(message_lower, "program")
    THEN Handled([text |-> Choice(learning_responses, pick), type |-> "casual_chat",
                  model |-> "instant_learning_template"], available, 0)
    ELSE IF fault = "handler_context" THEN HandlerRaised(available)
    ELSE IF \/ ContainsAny(message_lower, distress_keywords)
            \/ /\ emotion_result.primary \in {"sadness", "anger", "fear"}
               /\ FracLess(Frac(60, 100), emotion_result.confidence)
    THEN _handle_emotional_support(message, emotion_result, available, backend, fault,
                                   pick)
    ELSE Handled([text |-> response_data.response, type |-> "casual_chat",
                  model |-> "ollama_conversational", tone |-> "natural_friend",
                  emotionally_aware |-> TRUE],
                 Ready(available, backend), response_data.generations)

\* _handle_casual_chat.  profile is NoProfile when reading it raised; the
\* emotion found from the keyword templates only shapes the prompt.
_handle_casual_chat(message, emotion_result, profile, available, backend, fault, pick) ==
    CasualChat(message, emotion_result, profile, available, backend, fault, pick,
               Strip(Lower(message)),
               IF message \in ChatMessages THEN CasualFact[message]
               ELSE _check_simple_facts(Strip(Lower(message))),
               ask(Ready(available, backend), backend, message))

\* _handle_default_response
_handle_default_response(available) ==
    Handled([text |-> default_response, type |-> "clarification", model |-> "default",
             needs_clarification |-> TRUE], available, 0)

(***************************************************************************)
(* intelligent_reply_engine: _enhance_with_personality                     *)
(***************************************************************************)
\* the levels and the length the adaptation compares with
LowVerbosity == 40
HighVerbosity == 70
ShortReplyWords == 30
ProactiveLevel == 60

\* Python: '. '.join(text.split('. ')[:2]) + '.' for a text of more than two
\* sentences
Concise(text) ==
    LET stops == {i \in 1..(Len(text) - 1) : SubSeq(text, i, i + 1) = ". "}
        second == CHOOSE i \in stops :
                      Cardinality({j \in stops : j < i}) = 1
    IN  IF Cardinality(stops) >= 2 THEN SubSeq(text, 1, second - 1) \o "." ELSE text

\* Python: re.sub of the emoji pattern by ''
RECURSIVE RemoveEmojis(_)
RemoveEmojis(text) ==
    IF ~Contains(text, "@") THEN text
    ELSE LET i == Find(text, "@")
         IN  SubSeq(text, 1, i - 1) \o RemoveEmojis(SubSeq(text, i + 1, Len(text)))

\* _enhance_with_personality: personality_traits of a profile
personality_traits(profile) ==
    [warmth |-> Frac(profile.empathy_level, 100),
     helpfulness |-> Frac(9, 10),
     empathy |-> Frac(profile.empathy_level, 100),
     intelligence |-> Frac(8, 10),
     humor |-> Frac(profile.humor_level, 100),
     formality |-> Frac(profile.formality_level, 100),
     verbosity |-> Frac(profile.verbosity_level, 100),
     proactiveness |-> Frac(profile.proactiveness_level, 100)]

\* _enhance_with_personality: the text of the reply
EnhancedText(reply_data, profile, pick) ==
    LET text == reply_data.text
        adjusted ==
            IF profile.verbosity_level < LowVerbosity THEN Concise(text)
            ELSE IF /\ profile.verbosity_level > HighVerbosity
                    /\ WordCount(text) < ShortReplyWords
                    /\ "emotion" \in DOMAIN reply_data
                    /\ reply_data["emotion"] # "neutral"
            THEN text \o verbose_addition
            ELSE text
        proactive ==
            IF profile.proactiveness_level > ProactiveLevel /\ ~EndsWith(adjusted, "?")
            THEN adjusted \o Choice(proactive_additions, pick)
            ELSE adjusted
    IN  IF profile.emoji_usage THEN proactive ELSE RemoveEmojis(proactive)

\* _enhance_with_personality, for the profile generate_reply holds
_enhance_with_personality(reply_data, profile, pick) ==
    [k \in DOMAIN reply_data \cup {"personality_traits"} |->
        IF k = "personality_traits" THEN personality_traits(profile)
        ELSE IF k = "text" THEN EnhancedText(reply_data, profile, pick)
        ELSE reply_data[k]]

(***************************************************************************)
(* intelligent_reply_engine: generate_reply                                *)
(***************************************************************************)
\* _update_memory keeps this many entries of a user's emotion_history
MaxEmotionHistory == 50

\* _update_memory, on the engine's conversation_memory
_update_memory(memory, user_id, emotion_result, t) ==
    LET old == IF user_id \in DOMAIN memory THEN memory[user_id]
               ELSE [message_count |-> 0, emotion_history |-> <<>>,
                     last_interaction |-> -1]
        entry == [emotion |-> emotion_result.primary,
                  confidence |-> emotion_result.confidence, timestamp |-> t]
        new == [message_count |-> old.message_count + 1,
                emotion_history |-> Suffix(Append(old.emotion_history, entry),
                                           MaxEmotionHistory),
                last_interaction |-> t]
    IN  [u \in DOMAIN memory \cup {user_id} |-> IF u = user_id THEN new ELSE memory[u]]

\* _error_response; error_msg names the call that raised
_error_response(error_msg) ==
    [message |-> error_message,
     emotion |-> [primary |-> "neutral", confidence |-> Frac(50, 100)],
     strategy |-> "error",
     metadata |-> [error |-> error_msg]]

\* generate_reply: emotion_result['reasoning'], by the values its text embeds
Reasoning(message, emotion_data) ==
    IF _check_emotional_negation(message)
    THEN [negated |-> TRUE, primary |-> "neutral", confidence |-> Frac(90, 100)]
    ELSE [negated |-> FALSE, primary |-> emotion_data.primary,
          confidence |-> emotion_data.confidence]

\* generate_reply: the emotion, the strategy and the reasoning found for a
\* message by a classifier
Routed(message, classifier) ==
    LET emotion_data == detect_emotion(message, classifier)
        emotion_result == EmotionResult(message, emotion_data)
    IN  [emotion_result |-> emotion_result,
         strategy |-> _determine_strategy(message, emotion_result),
         reasoning |-> Reasoning(message, emotion_data)]

\* Routed, computed once for the messages and classifiers of the requests
Routing == [message \in ChatMessages, classifier \in Classifiers |->
               Routed(message, classifier)]

\* generate_reply: the handler of a strategy
Handle(strategy, message, emotion_result, profile, contexts, u, available, backend, fault, pick) ==
    IF strategy = "emotional_support"
    THEN _handle_emotional_support(message, emotion_result, available, backend, fault,
                                   pick)
    ELSE IF strategy = "knowledge_focused"
    THEN _handle_knowledge_request(message, emotion_result, contexts, u, available,
                                   backend, fault, pick)
    ELSE IF strategy = "hybrid"
    THEN _handle_hybrid_response(message, emotion_result, available, backend)
    ELSE IF strategy = "casual_chat"
    THEN _handle_casual_chat(message, emotion_result, profile, available, backend,
                             fault, pick)
    ELSE _handle_default_response(available)

\* generate_reply: final_response
final_response(enhanced_reply, strategy, emotion_result, reasoning, start_time, t) ==
    [text |-> enhanced_reply.text,
     message |-> enhanced_reply.text,
     type |-> strategy,
     strategy |-> strategy,
     emotion |-> [primary |-> emotion_result.primary,
                  confidence |-> emotion_result.confidence,
                  intensity |-> emotion_result.intensity,
                  all_emotions |-> emotion_result.all_emotions],
     context |-> emotion_result.context,
     is_emotional |-> emotion_result.is_emotional,
     personality_applied |-> enhanced_reply.personality_traits,
     metadata |-> [processing_time |-> t - start_time,
                   reasoning |-> reasoning,
                   model_used |-> enhanced_reply.model,
                   timestamp |-> t]]

\* what generate_reply returns and leaves behind: the tables, the knowledge
\* engine's is_available and the engine's conversation_memory; tracked is the
\* emotion and intensity that track_emotion recorded, generations counts the requests sent to
\* the generation backend
Replied(returned, profiles, patterns, contexts, mems, available, memory, tracked, generations) ==
    [reply |-> returned, user_profiles |-> profiles, emotional_patterns |-> patterns,
     conversation_contexts |-> contexts, memories |-> mems, is_available |-> available,
     conversation_memory |-> memory, tracked |-> tracked, generations |-> generations]

\* generate_reply, from the writes that follow the personality adaptation on
\* (learn_preference reaches the store only for a message that states a
\* preference)
Written(message, user_id, fault, t, profiles, routed, handled, enhanced_reply, memory, tracked, updated, learned) ==
    IF fault = "track_emotion" \/ tracked.raised
    THEN Replied(_error_response("track_emotion"), profiles, emotional_patterns,
                 conversation_contexts, memories, handled.is_available, memory,
                 <<>>, handled.generations)
    ELSE IF fault = "update_conversation_context" \/ updated.raised
    THEN Replied(_error_response("update_conversation_context"), profiles,
                 tracked.emotional_patterns, conversation_contexts, memories,
                 handled.is_available, memory,
                 <<routed.emotion_result.primary, routed.emotion_result.intensity>>,
                 handled.generations)
    ELSE IF (fault = "learn_preference" /\ MatchedPreference[message].k # 0)
              \/ learned.raised
    THEN Replied(_error_response("learn_preference"), profiles,
                 tracked.emotional_patterns, updated.conversation_contexts, memories,
                 handled.is_available, memory,
                 <<routed.emotion_result.primary, routed.emotion_result.intensity>>,
                 handled.generations)
    ELSE Replied(final_response(enhanced_reply, routed.strategy, routed.emotion_result,
                                routed.reasoning, t, t + 1),
                 learned.user_profiles, tracked.emotional_patterns,
                 updated.conversation_contexts, learned.memories,
                 handled.is_available, memory,
                 <<routed.emotion_result.primary, routed.emotion_result.intensity>>,
                 handled.generations)

\* generate_reply, from the personality adaptation on
Enhanced(message, user_id, fault, t, profiles, routed, handled, enhanced_reply) ==
    Written(message, user_id, fault, t, profiles, routed, handled, enhanced_reply,
            _update_memory(conversation_memory, user_id, routed.emotion_result, t),
            track_emotion(emotional_patterns, profiles, user_id,
                          routed.emotion_result.primary, routed.emotion_result.intensity,
                          message, t),
            update_conversation_context(conversation_contexts, profiles, user_id, user_id,
                                        message, enhanced_reply.text,
                                        routed.emotion_result.primary, t),
            learn_preference(profiles, memories, user_id, message, t))

\* generate_reply, from the return of the handler on
Answered(message, user_id, fault, pick, t, profiles, profile, routed, handled) ==
    IF handled.raised
    THEN Replied(_error_response("get_conversation_context"), profiles,
                 emotional_patterns, conversation_contexts, memories,
                 handled.is_available, conversation_memory, <<>>, handled.generations)
    ELSE Enhanced(message, user_id, fault, t, profiles, routed, handled,
                  _enhance_with_personality(handled.reply_data, profile, pick))

\* generate_reply, from the profile and the detected emotion on
Detected(message, user_id, backend, fault, pick, t, profiles, profile, routed) ==
    IF fault = "get_context_summary"
    THEN Replied(_error_response(fault), profiles, emotional_patterns,
                 conversation_contexts, memories, is_available, conversation_memory,
                 <<>>, 0)
    ELSE Answered(message, user_id, fault, pick, t, profiles, profile, routed,
                  Handle(routed.strategy, message, routed.emotion_result,
                         IF fault = "handler_profile" THEN NoProfile ELSE profile,
                         conversation_contexts, user_id, is_available, backend, fault,
                         pick))

\* generate_reply(message, user_id) at the time now, with the classifier and
\* the generation backend of this request, the store call that fails (fault)
\* and the index its random choices draw (pick)
generate_reply(message, user_id, classifier, backend, fault, pick) ==
    IF fault = "get_or_create_profile"
    THEN Replied(_error_response(fault), user_profiles, emotional_patterns,
                 conversation_contexts, memories, is_available, conversation_memory,
                 <<>>, 0)
    ELSE Detected(message, user_id, backend, fault, pick, now,
                 get_or_create_profile(user_profiles, user_id, now),
                 First({r \in get_or_create_profile(user_profiles, user_id, now) :
                           r.user_id = user_id}),
                 Routing[message, classifier])

(***************************************************************************)
(* The chat requests                                                       *)
(***************************************************************************)
\* the surroundings of one request: the classifier, the generation backend,
\* the store call that raises and the index of the random choices.  Every
\* classifier meets every backend; a store call fails, or the random choices
\* draw another index, with the first classifier and two of the backends.
Worlds ==
    LET onnx == CHOOSE c \in Classifiers :
                    c.use_onnx /\ ~c.raised /\ c.result.primary = "sadness"
        some == {b \in Backends : b.status = "down"}
                    \cup {CHOOSE b \in Backends : b.status = "ok"}
    IN  [classifier : Classifiers, backend : Backends, fault : {"none"}, pick : {0}]
          \cup [classifier : {onnx}, backend : some, fault : StoreFaults, pick : {0}]
          \cup [classifier : {onnx}, backend : some, fault : {"none"}, pick : Picks]

\* the lengths pydantic accepts for ChatRequest.message
MinMessageLen == 1
MaxMessageLen == 4000
MaxAppMessageLen == 5000

\* generate_reply was not called
NotCalled ==
    Replied(NoReply, user_profiles, emotional_patterns, conversation_contexts, memories,
            is_available, conversation_memory, <<>>, 0)

\* a chat request: what it leaves in the store and in the engine, and the
\* answer it gets.  called tells whether generate_reply ran, result is what it
\* returned and left behind.
Serve(op, user_id, message, world, called, result, answered) ==
    /\ requests' = requests + 1
    /\ now' = IF called THEN now + 1 ELSE now
    /\ user_profiles' = result.user_profiles
    /\ emotional_patterns' = result.emotional_patterns
    /\ conversation_contexts' = result.conversation_contexts
    /\ memories' = result.memories
    /\ is_available' = result.is_available
    /\ conversation_memory' = result.conversation_memory
    /\ reply' = result.reply
    /\ generation_calls' = result.generations
    /\ http_response' = answered
    /\ track_history' = IF result.tracked = <<>> THEN track_history
                        ELSE Record(track_history, user_id, result.tracked[1],
                                    result.tracked[2])
    /\ last' = Done(op, user_id, answered.status >= 500,
                    [message |-> message, called |-> called,
                     classifier |-> world.classifier, backend |-> world.backend,
                     fault |-> world.fault, pick |-> world.pick])
    /\ UNCHANGED <<other_ops, in_flight>>

\* the keys chat_endpoint reads from what generate_reply returned
HasChatFields(r) ==
    /\ {"message", "emotion", "context", "metadata", "strategy", "is_emotional"}
          \subseteq DOMAIN r
    /\ {"primary", "confidence", "all_emotions"} \subseteq DOMAIN r.emotion
    /\ {"processing_time", "model_used", "timestamp", "reasoning"}
          \subseteq DOMAIN r.metadata

\* chat_endpoint: the ChatResponse made of what generate_reply returned, or
\* the HTTPException raised when a key is missing
chat_response(r) ==
    IF HasChatFields(r)
    THEN [path |-> "POST /api/v1/chat", status |-> 200,
          body |-> [message |-> r.message,
                    emotion |-> r.emotion.primary,
                    confidence |-> r.emotion.confidence,
                    all_emotions |-> r.emotion.all_emotions,
                    context |-> r.context,
                    metadata |-> [processing_time |-> r.metadata.processing_time,
                                  strategy |-> r.strategy,
                                  model_used |-> r.metadata.model_used,
                                  timestamp |-> r.metadata.timestamp,
                                  reasoning |-> r.metadata.reasoning,
                                  is_emotional |-> r.is_emotional]]]
    ELSE [path |-> "POST /api/v1/chat", status |-> 500]

\* api/v1/chat.chat_endpoint: POST /api/v1/chat
ChatEndpoint(session_id, message, world) ==
    LET user_id == IF session_id \in {None, ""} THEN "default" ELSE session_id
    IN  IF Len(message) < MinMessageLen \/ Len(message) > MaxMessageLen
        THEN Serve("POST /api/v1/chat", user_id, message, world, FALSE, NotCalled,
                   [path |-> "POST /api/v1/chat", status |-> 422])
        ELSE \E result \in {generate_reply(message, user_id, world.classifier,
                                           world.backend, world.fault, world.pick)} :
                Serve("POST /api/v1/chat", user_id, message, world, TRUE, result,
                      chat_response(result.reply))

\* the keys v2_chat_endpoint reads from what generate_reply returned
HasV2Fields(r) ==
    /\ {"message", "emotion", "strategy", "metadata"} \subseteq DOMAIN r
    /\ {"primary", "confidence", "intensity", "all_emotions"} \subseteq DOMAIN r.emotion

\* v2_chat_endpoint: the answer made of what generate_reply returned, or the
\* canned answer when a key is missing
v2_response(r) ==
    IF HasV2Fields(r)
    THEN [path |-> "POST /chat", status |-> 200,
          body |-> [response |-> r.message,
                    emotion |-> [primary |-> r.emotion.primary,
                                 confidence |-> r.emotion.confidence,
                                 intensity |-> r.emotion.intensity,
                                 all_emotions |-> r.emotion.all_emotions],
                    response_type |-> r.strategy,
                    tone |-> r.emotion.primary,
                    metadata |-> r.metadata]]
    ELSE [path |-> "POST /chat", status |-> 200,
          body |-> [response |-> v2_error_message,
                    emotion |-> [primary |-> "neutral", confidence |-> Frac(50, 100),
                                 intensity |-> Frac(50, 1), all_emotions |-> Scores({})],
                    response_type |-> "error",
                    tone |-> "neutral",
                    metadata |-> [error |-> "intensity"]]]

\* main.v2_chat_endpoint: POST /chat of main.py
V2ChatEndpoint(requested_user, message, world) ==
    LET user_id == IF requested_user \in {None, ""} THEN "default" ELSE requested_user
    IN  \E result \in {generate_reply(message, user_id, world.classifier, world.backend,
                                      world.fault, world.pick)} :
            Serve("POST /chat", user_id, message, world, TRUE, result,
                  v2_response(result.reply))

\* the keys hybrid_chat_engine.process_message reads
HasHybridFields(r) ==
    /\ {"message", "emotion", "strategy", "metadata", "context", "is_emotional"}
          \subseteq DOMAIN r
    /\ "primary" \in DOMAIN r.emotion
    /\ {"processing_time", "model_used", "timestamp", "reasoning"}
          \subseteq DOMAIN r.metadata

\* hybrid_chat_engine._error_response
hybrid_error_response(error_msg, t) ==
    [response |-> hybrid_error_message,
     emotion |-> [primary |-> "neutral", confidence |-> Frac(50, 100),
                  all_emotions |-> Scores({<<"neutral", 500>>})],
     response_type |-> "error",
     tone |-> "neutral",
     metadata |-> [processing_time |-> 0, knowledge_used |-> FALSE,
                   model |-> "fallback", timestamp |-> t, error |-> error_msg]]

\* hybrid_chat_engine.process_message: the reply to an empty message
hybrid_prompt_response ==
    [response |-> hybrid_prompt_for_input,
     emotion |-> [primary |-> "neutral", confidence |-> Frac(1, 1),
                  all_emotions |-> Scores({<<"neutral", 1000>>})],
     response_type |-> "casual_chat",
     tone |-> "friendly",
     metadata |-> [processing_time |-> 0, model |-> "fallback"]]

\* hybrid_chat_engine.process_message: the result made of what generate_reply
\* returned, or its error response when a key is missing
hybrid_response(r, t) ==
    IF HasHybridFields(r)
    THEN [response |-> r.message,
          emotion |-> r.emotion,
          response_type |-> r.strategy,
          tone |-> r.emotion.primary,
          metadata |-> [processing_time |-> r.metadata.processing_time,
                        knowledge_used |-> r.strategy \in {"knowledge_focused", "hybrid"},
                        model |-> r.metadata.model_used,
                        timestamp |-> r.metadata.timestamp,
                        reasoning |-> r.metadata.reasoning,
                        context |-> r.context,
                        is_emotional |-> r.is_emotional]]
    ELSE hybrid_error_response("processing_time", t)

\* app.chat with hybrid_chat_engine.process_message: POST /chat of app.py
HybridChat(message, world) ==
    LET user_input == Strip(message)
    IN  IF Len(message) < MinMessageLen \/ Len(message) > MaxAppMessageLen
        THEN Serve("app POST /chat", "default", message, world, FALSE, NotCalled,
                   [path |-> "app POST /chat", status |-> 422])
        ELSE IF Len(user_input) = 0
        THEN Serve("app POST /chat", "default", message, world, FALSE, NotCalled,
                   [path |-> "app POST /chat", status |-> 200,
                    body |-> hybrid_prompt_response])
        ELSE \E result \in {generate_reply(user_input, "default", world.classifier,
                                           world.backend, world.fault, world.pick)} :
                Serve("app POST /chat", "default", message, world, TRUE, result,
                      [path |-> "app POST /chat", status |-> 200,
                       body |-> hybrid_response(result.reply, now + 1)])

\* app.startup_event: knowledge_engine.initialize(), before any request is
\* served (knowledge_service makes the same call for main.py)
Startup(backend) ==
    /\ last.op = "init"
    /\ is_available' = initialize(is_available, backend)
    /\ last' = Done("startup", None, FALSE, <<>>)
    /\ UNCHANGED <<now, store, track_history, other_ops, conversation_memory, reply,
                   http_response, generation_calls, requests, in_flight>>

Next ==
    \/ \E backend \in Backends : Startup(backend)
    \/ /\ now < MaxSetupOps
       /\ \/ GetOrCreateProfile("u1")
          \/ \E body \in ChatProfileBodies : UpdateProfileEndpoint("u1", body)
    \/ /\ requests < MaxChatOps
       /\ \E message \in ChatMessages, world \in Worlds :
             \/ ChatEndpoint("u1", message, world)
             \/ V2ChatEndpoint(None, message, world)
             \/ HybridChat(message, world)

Spec == Init /\ [][Next]_vars

(***************************************************************************)
(* The profile operations                                                  *)
(***************************************************************************)
NextProfile ==
    /\ now < MaxProfileOps
    /\ \E u \in Users :
          \/ GetOrCreateProfile(u)
          \/ \E updates \in ProfileUpdates : UpdateProfile(u, updates)
          \/ \E body \in ProfileBodies : UpdateProfileEndpoint(u, body)
          \/ \E message \in PreferenceMessages : LearnPreference(u, message)

SpecProfile == Init /\ [][NextProfile]_vars

(***************************************************************************)
(* The emotion-tracking operations                                         *)
(***************************************************************************)
NextEmotion ==
    /\ now < MaxTrackOps
    /\ \E u \in Users :
          \/ GetOrCreateProfile(u)
          \/ \E emotion \in TrackedEmotions, intensity \in TrackedIntensities,
                context \in TrackedContexts :
                TrackEmotion(u, emotion, intensity, context)

SpecEmotion == Init /\ [][NextEmotion]_vars

(***************************************************************************)
(* The conversation-context operations                                     *)
(***************************************************************************)
NextContext ==
    /\ now < MaxContextOps
    /\ \E u \in Users :
          \/ GetOrCreateProfile(u)
          \/ \E a \in ContextArgs : UpdateConversationContext(u, a[1], a[2], a[3], a[4])

SpecContext == Init /\ [][NextContext]_vars

(***************************************************************************)
(* The strategy router: generate_reply from the classification of the     *)
(* message to the choice of the handler                                    *)
(***************************************************************************)
\* messages put to the router
RoutedMessages ==
    { "hello", "What is Python?", "I am not sad, just asking",
      "I am not sure what to do, I feel hopeless", "hey I feel so lonely",
      "tell me about feeling lonely", "why am I so lonely",
      "I need to send this today", "when will this week end",
      "my day went badly again", "I am excited to learn about black holes",
      "hello there, my resume has a gap of two years",
      "hello, which laptop should I buy for my studies",
      "please show me how to learn chess" }

\* scores of the classifier besides ModelResults
RoutedResults ==
    { EmotionScores("anger", Frac(75, 100),
          Scores({<<"anger", 750>>, <<"sadness", 120>>, <<"fear", 60>>,
                  <<"neutral", 40>>, <<"surprise", 20>>, <<"joy", 10>>})),
      EmotionScores("sadness", Frac(55, 100),
          Scores({<<"sadness", 550>>, <<"neutral", 250>>, <<"fear", 90>>,
                  <<"anger", 60>>, <<"surprise", 30>>, <<"joy", 20>>})),
      EmotionScores("fear", Frac(45, 100),
          Scores({<<"fear", 450>>, <<"neutral", 300>>, <<"sadness", 150>>,
                  <<"surprise", 50>>, <<"anger", 30>>, <<"joy", 20>>})),
      EmotionScores("surprise", Frac(70, 100),
          Scores({<<"surprise", 700>>, <<"joy", 150>>, <<"neutral", 100>>,
                  <<"fear", 30>>, <<"sadness", 10>>, <<"anger", 10>>})) }

RoutedClassifiers ==
    Classifiers
      \cup [use_onnx : {TRUE}, is_loaded : {TRUE}, raised : {FALSE},
            result : RoutedResults]

\* generate_reply, from the detection of the emotion to the strategy: what
\* the reply will carry as emotion, context and strategy
DetermineStrategy(message, classifier) ==
    \E routed \in {Routed(message, classifier)} :
        /\ last' = Done("_determine_strategy", None, FALSE,
                        [message |-> message, classifier |-> classifier])
        /\ reply' = [strategy |-> routed.strategy,
                     context |-> routed.emotion_result.context,
                     is_emotional |-> routed.emotion_result.is_emotional,
                     emotion |-> [primary |-> routed.emotion_result.primary,
                                  confidence |-> routed.emotion_result.confidence]]
        /\ UNCHANGED <<now, store, track_history, other_ops, is_available,
                       conversation_memory, http_response, generation_calls, requests,
                       in_flight>>

NextRouting ==
    \E message \in RoutedMessages, classifier \in RoutedClassifiers :
        DetermineStrategy(message, classifier)

SpecRouting == Init /\ [][NextRouting]_vars

(***************************************************************************)
(* The store calls of two server processes.  track_emotion and             *)
(* update_conversation_context load a row in one database session and      *)
(* save it in another; nothing orders the sessions of the two processes.   *)
(***************************************************************************)
\* the store calls the two processes may start
MaxRaceOps == 4

\* <<emotion, intensity, context>> of the track_emotion calls
RaceTracked == {<<"joy", <<70, 1>>, None>>, <<"joy", <<90, 1>>, None>>}

\* no row was found
NoRow == [user_id |-> None]

\* repository.get_conversation_context
get_conversation_context(contexts, u) ==
    IF \E r \in contexts : r.user_id = u
    THEN CHOOSE r \in contexts : r.user_id = u
    ELSE NoRow

\* repository.get_emotional_pattern
get_emotional_pattern(patterns, u, emotion) ==
    IF \E r \in patterns : r.user_id = u /\ r.emotion = emotion
    THEN CHOOSE r \in patterns : r.user_id = u /\ r.emotion = emotion
    ELSE NoRow

\* variant: the row keeps its message pairs and takes the newest of the context
save_conversation_context_appending(contexts, context) ==
    LET rows == {r \in contexts : r.user_id = context.user_id}
    IN  IF rows = {} THEN contexts \cup {context}
        ELSE (contexts \ rows)
                \cup {[First(rows) EXCEPT
                         !.messages = KeepMessages(Append(First(rows).messages,
                                          context.messages[Len(context.messages)])),
                         !.last_activity = context.last_activity]}

\* repository.save_conversation_context: the row of the user takes the fields
\* of the context, or the context is inserted
save_conversation_context(contexts, context) ==
    LET rows == {r \in contexts : r.user_id = context.user_id}
    IN  IF rows = {} THEN contexts \cup {context}
        ELSE (contexts \ rows)
                \cup {[First(rows) EXCEPT
                         !.session_id = context.session_id,
                         !.messages = context.messages,
                         !.topics = context.topics,
                         !.current_emotion = context.current_emotion,
                         !.emotion_trajectory = context.emotion_trajectory,
                         !.last_activity = context.last_activity]}

\* repository.save_emotional_pattern: the row of (user, emotion) takes the
\* fields of the pattern, or the pattern is inserted
save_emotional_pattern(patterns, pattern) ==
    LET rows == {r \in patterns : r.user_id = pattern.user_id
                                    /\ r.emotion = pattern.emotion}
    IN  IF rows = {} THEN patterns \cup {pattern}
        ELSE (patterns \ rows)
                \cup {[First(rows) EXCEPT
                         !.frequency = pattern.frequency,
                         !.avg_intensity = pattern.avg_intensity,
                         !.triggers = pattern.triggers,
                         !.time_patterns = pattern.time_patterns,
                         !.trend = pattern.trend,
                         !.last_occurrence = pattern.last_occurrence]}

\* update_conversation_context, up to the row it has loaded
LoadContext(server, u, a) ==
    /\ in_flight[server].pc = "idle"
    /\ now < MaxRaceOps
    /\ in_flight' = [in_flight EXCEPT ![server] =
                        [pc |-> "update_conversation_context", user |-> u, args |-> a,
                         loaded |-> get_conversation_context(conversation_contexts, u),
                         returned |-> in_flight[server].returned]]
    /\ UNCHANGED <<now, store, last, track_history, other_ops, engine>>

\* update_conversation_context, from the row it has loaded to the save (an
\* insert raises for a user without a profile row)
SaveContext(server) ==
    LET call == in_flight[server]
        context == IF call.loaded = NoRow
                   THEN ConversationContext(call.user, call.args[1], now)
                   ELSE call.loaded
        raised == ContextRows(call.user) = {} /\ ProfileRows(call.user) = {}
    IN  /\ call.pc = "update_conversation_context"
        /\ conversation_contexts' =
              IF raised THEN conversation_contexts
              ELSE save_conversation_context(conversation_contexts,
                       UpdatedContext(context, call.args[2], call.args[3],
                                      call.args[4], now))
        /\ in_flight' = [in_flight EXCEPT ![server] =
                            Idle(IF raised THEN call.returned ELSE call.returned + 1)]
        /\ now' = IF raised THEN now ELSE now + 1
        /\ last' = Done("update_conversation_context", call.user, raised, call.args)
        /\ UNCHANGED <<user_profiles, emotional_patterns, memories, track_history,
                       other_ops, engine>>

\* track_emotion, up to the row it has loaded
LoadPattern(server, u, a) ==
    /\ in_flight[server].pc = "idle"
    /\ now < MaxRaceOps
    /\ in_flight' = [in_flight EXCEPT ![server] =
                        [pc |-> "track_emotion", user |-> u, args |-> a,
                         loaded |-> get_emotional_pattern(emotional_patterns, u, a[1]),
                         returned |-> in_flight[server].returned]]
    /\ UNCHANGED <<now, store, last, track_history, other_ops, engine>>

\* track_emotion, from the row it has loaded to the save
SavePattern(server) ==
    LET call == in_flight[server]
        pattern == IF call.loaded = NoRow
                   THEN EmotionalPattern(call.user, call.args[1])
                   ELSE call.loaded
        raised == PatternRows(call.user, call.args[1]) = {}
                     /\ ProfileRows(call.user) = {}
    IN  /\ call.pc = "track_emotion"
        /\ emotional_patterns' =
              IF raised THEN emotional_patterns
              ELSE save_emotional_pattern(emotional_patterns,
                       TrackedPattern(pattern, call.args[2], call.args[3], now))
        /\ track_history' = IF raised THEN track_history
                            ELSE Record(track_history, call.user, call.args[1],
                                        call.args[2])
        /\ in_flight' = [in_flight EXCEPT ![server] = Idle(call.returned)]
        /\ now' = IF raised THEN now ELSE now + 1
        /\ last' = Done("track_emotion", call.user, raised, call.args)
        /\ UNCHANGED <<user_profiles, conversation_contexts, memories, other_ops,
                       engine>>

NextRace ==
    \/ now < MaxRaceOps /\ GetOrCreateProfile("u1")
    \/ \E server \in Servers :
          \/ \E a \in ContextArgs : LoadContext(server, "u1", a)
          \/ SaveContext(server)
          \/ \E a \in RaceTracked : LoadPattern(server, "u1", a)
          \/ SavePattern(server)

SpecRace == Init /\ [][NextRace]_vars

(***************************************************************************)
(* The emotion detector: detect_emotion on one text, for each state of the *)
(* classifier                                                              *)
(***************************************************************************)
\* texts put to the detector
DetectedTexts ==
    { "hello", "scolded", "my teacher scolded me in class today",
      "they punished me but I am innocent",
      "I was blamed and it is unfair, so frustrating",
      "so happy", "I feel great about this result",
      "the trip was amazing but what if it rains",
      "it is not bad but it is hard and tough" }

\* scores of the classifier besides ModelResults and RoutedResults
DetectedResults ==
    { EmotionScores("neutral", Frac(65, 100),
          Scores({<<"neutral", 650>>, <<"joy", 250>>, <<"surprise", 40>>,
                  <<"sadness", 30>>, <<"anger", 20>>, <<"fear", 10>>})),
      EmotionScores("neutral", Frac(25, 100),
          Scores({<<"neutral", 250>>, <<"joy", 220>>, <<"sadness", 200>>,
                  <<"anger", 150>>, <<"fear", 100>>, <<"surprise", 80>>})),
      EmotionScores("neutral", Frac(75, 100),
          Scores({<<"neutral", 750>>, <<"joy", 150>>, <<"surprise", 40>>,
                  <<"sadness", 30>>, <<"anger", 20>>, <<"fear", 10>>})) }

\* the classifier in use: the ONNX session or the PyTorch model, with each of
\* the scores, and the classifiers that fail
DetectedClassifiers ==
    Classifiers
      \cup [use_onnx : BOOLEAN, is_loaded : {TRUE}, raised : {FALSE},
            result : ModelResults \cup RoutedResults \cup DetectedResults]

\* detect_emotion on one text
DetectEmotion(text, classifier) ==
    \E emotion_data \in {detect_emotion(text, classifier)} :
        /\ last' = Done("detect_emotion", None, FALSE,
                        [text |-> text, classifier |-> classifier])
        /\ reply' = [strategy |-> None, emotion |-> emotion_data]
        /\ UNCHANGED <<now, store, track_history, other_ops, is_available,
                       conversation_memory, http_response, generation_calls, requests,
                       in_flight>>

NextDetect ==
    \E text \in DetectedTexts, classifier \in DetectedClassifiers :
        DetectEmotion(text, classifier)

SpecDetect == Init /\ [][NextDetect]_vars

(***************************************************************************)
(* A long conversation of one user: update_conversation_context often      *)
(* enough to fill the topics and the emotion trajectory                    *)
(***************************************************************************)
\* the first operations of the conversation, with any of TopicArgs
MaxTopicOps == 5
\* the operations of the conversation
MaxTrajectoryOps == 27

\* the call the conversation goes on with: <<session_id, message, response, emotion>>
SteadyArgs == <<"s1", "I feel anxious about my exams", "That sounds stressful.", "fear">>

NextTopics ==
    \/ ProfileRows("u1") = {} /\ GetOrCreateProfile("u1")
    \/ /\ now < MaxTopicOps
       /\ \E a \in TopicArgs : UpdateConversationContext("u1", a[1], a[2], a[3], a[4])
    \/ /\ MaxTopicOps <= now
       /\ now < MaxTrajectoryOps
       /\ UpdateConversationContext("u1", SteadyArgs[1], SteadyArgs[2], SteadyArgs[3],
                                    SteadyArgs[4])

SpecTopics == Init /\ [][NextTopics]_vars

(***************************************************************************)
(* The triggers of one user: track_emotion with contexts of many keywords  *)
(***************************************************************************)
\* the operations of the trigger specification
MaxTriggerOps == 5

\* the intensity of the calls, in percent
TriggerIntensity == Frac(70, 1)

NextTriggers ==
    \/ ProfileRows("u1") = {} /\ GetOrCreateProfile("u1")
    \/ /\ now < MaxTriggerOps
       /\ \E emotion \in TrackedEmotions, context \in TriggerContexts :
             TrackEmotion("u1", emotion, TriggerIntensity, context)

SpecTriggers == Init /\ [][NextTriggers]_vars

(***************************************************************************)
(* The first requests of a user, two at a time: get_or_create_profile      *)
(* reads the profile row in one database session and inserts it in         *)
(* another; the calls run in worker threads (asyncio.to_thread) and in two *)
(* server processes                                                        *)
(***************************************************************************)
\* the get_or_create_profile calls each process may make
MaxCreateOps == 2

\* repository.get_user_profile
get_user_profile(profiles, u) ==
    IF \E r \in profiles : r.user_id = u
    THEN CHOOSE r \in profiles : r.user_id = u
    ELSE NoRow

\* repository.create_user_profile: the insert raises when a row of the user
\* exists (user_id is unique), and the exception is raised again
create_user_profile(profiles, u, t) ==
    IF \E r \in profiles : r.user_id = u
    THEN [raised |-> TRUE, user_profiles |-> profiles]
    ELSE [raised |-> FALSE, user_profiles |-> profiles \cup {DBUserProfile(u, t)}]

\* get_or_create_profile, up to the row it has looked for
LoadProfile(server, u) ==
    /\ in_flight[server].pc = "idle"
    /\ in_flight[server].returned < MaxCreateOps
    /\ in_flight' = [in_flight EXCEPT ![server] =
                        [pc |-> "get_or_create_profile", user |-> u, args |-> <<>>,
                         loaded |-> get_user_profile(user_profiles, u),
                         returned |-> in_flight[server].returned]]
    /\ UNCHANGED <<now, store, last, track_history, other_ops, engine>>

\* get_or_create_profile, from the row it has looked for to its return: the
\* row found, or the row create_user_profile inserts
ReturnProfile(server) ==
    LET call == in_flight[server]
        created == IF call.loaded = NoRow
                   THEN create_user_profile(user_profiles, call.user, now)
                   ELSE [raised |-> FALSE, user_profiles |-> user_profiles]
    IN  /\ call.pc = "get_or_create_profile"
        /\ user_profiles' = created.user_profiles
        /\ in_flight' = [in_flight EXCEPT ![server] = Idle(call.returned + 1)]
        /\ now' = IF user_profiles' # user_profiles THEN now + 1 ELSE now
        /\ last' = Done("get_or_create_profile", call.user, created.raised, <<>>)
        /\ UNCHANGED <<emotional_patterns, conversation_contexts, memories,
                       track_history, other_ops, engine>>

NextCreate ==
    \E server \in Servers :
        \/ \E u \in Users : LoadProfile(server, u)
        \/ ReturnProfile(server)

SpecCreate == Init /\ [][NextCreate]_vars

(***************************************************************************)
(* Claims about the store                                                  *)
(***************************************************************************)
\* C1: after any number of update_conversation_context calls for a user, in
\* any order and with any arguments, the stored ConversationContext.messages
\* of that user holds at most K = 10 entries.
C1_MessagesAtMostK ==
    \A r \in conversation_contexts : Len(r.messages) <= MaxMessages

\* C1 witness: a context that is full and has already dropped its first
\* message pair (its oldest entry is later than the start of the context)
C1_Witness ==
    \E r \in conversation_contexts :
        /\ Len(r.messages) = MaxMessages
        /\ r.messages[1].timestamp > r.started_at
        /\ last.op = "update_conversation_context" /\ last.user = r.user_id

\* C2: for one (user, emotion) pair, after n track_emotion calls that returned,
\* with intensities i1..in, the stored pattern has frequency = n and
\* avg_intensity equal to the arithmetic mean of i1..in.
C2_FrequencyAndMean ==
    /\ \A u \in DOMAIN track_history : \A e \in DOMAIN track_history[u] :
          LET history == track_history[u][e]
              rows == PatternRows(u, e)
          IN  /\ Cardinality(rows) = 1
              /\ \A r \in rows :
                    /\ r.frequency = Len(history)
                    /\ r.avg_intensity = FracDiv(FracSum(history), Len(history))
    /\ \A r \in emotional_patterns : r.emotion \in DOMAIN track_history[r.user_id]

\* C2 witness: 70 then 90 gives frequency 2 and average 80, and a third
\* sample of 85 gives frequency 3 and average 245/3
C2_Witness ==
    \E r \in emotional_patterns :
        /\ Tracked(r.user_id, r.emotion) = << <<70, 1>>, <<90, 1>>, <<85, 1>> >>
        /\ r.frequency = 3
        /\ r.avg_intensity = <<245, 3>>

\* the operations that call memory_service.update_profile with the updates
\* recorded in last.args
UpdateProfileOps == {"update_profile", "PUT /profile"}

\* C3 as stated: an update_profile call changes exactly the named fields of the
\* stored profile; every other field is identical to its value before the call.
C3_OnlyNamedFieldsChange ==
    [][\A u \in Users :
          (last'.op \in UpdateProfileOps /\ last'.user = u /\ ~last'.raised) =>
              \A old \in {r \in user_profiles : r.user_id = u} :
              \A new \in {r \in user_profiles' : r.user_id = u} :
              \A f \in ProfileFields \ DOMAIN last'.args : new[f] = old[f]]_vars

\* C3: an update_profile call gives each named field of the stored profile the
\* value given and stamps updated_at; every other field of that profile, and
\* every other profile, is identical to its value before the call.
C3_NamedFieldsAndUpdatedAtChange ==
    [][\A u \in Users :
          (last'.op \in UpdateProfileOps /\ last'.user = u /\ ~last'.raised) =>
              /\ \A old \in {r \in user_profiles : r.user_id = u} :
                 \A new \in {r \in user_profiles' : r.user_id = u} :
                    /\ \A f \in ProfileFields \ (DOMAIN last'.args \cup {"updated_at"}) :
                          new[f] = old[f]
                    /\ \A f \in ProfileFields \cap DOMAIN last'.args :
                          new[f] = last'.args[f]
                    /\ new.updated_at = now
              /\ Cardinality({r \in user_profiles' : r.user_id = u}) = 1
              /\ {r \in user_profiles' : r.user_id # u}
                    = {r \in user_profiles : r.user_id # u}]_vars

\* C3 witness: the update {empathy_level: 90} was applied to a profile whose
\* verbosity and humor had been changed before, and they are still as changed
C3_Witness ==
    /\ last.op = "update_profile" /\ ~last.raised
    /\ last.args = [empathy_level |-> 90]
    /\ \E r \in user_profiles :
          /\ r.user_id = last.user
          /\ r.empathy_level = 90
          /\ r.verbosity_level = 0
          /\ r.updated_at > r.created_at

\* C4 as stated: in every reachable state each personality level of every
\* stored profile lies in [0, 100].
C4_LevelsInRange ==
    \A r \in user_profiles : \A f \in PersonalityLevels :
        r[f] >= MinLevel /\ r[f] <= MaxLevel

\* the message pairs stored for a user: none while the user has no context
StoredMessages(contexts, u) ==
    IF \E r \in contexts : r.user_id = u
    THEN (CHOOSE r \in contexts : r.user_id = u).messages
    ELSE <<>>

\* C13: every update_conversation_context call that returns puts its entry
\* {message, response, emotion, timestamp} last, keeps the entries stored
\* before it in their order, and drops the oldest of them, and only that
\* one, when there were ten: the stored messages are the most recent
\* min(n, 10) entries in arrival order.
C13_NewestLastOldestEvicted ==
    [][(last'.op = "update_conversation_context" /\ ~last'.raised)
          => LET old == StoredMessages(conversation_contexts, last'.user)
                 new == StoredMessages(conversation_contexts', last'.user)
                 dropped == Len(old) + 1 - Len(new)
             IN  /\ Len(new) = Min(Len(old) + 1, MaxMessages)
                 /\ new[Len(new)] = [user |-> last'.args[2], assistant |-> last'.args[3],
                                     emotion |-> last'.args[4], timestamp |-> now]
                 /\ \A i \in 1..(Len(new) - 1) : new[i] = old[i + dropped]
                 /\ \A v \in Users \ {last'.user} :
                       StoredMessages(conversation_contexts', v)
                           = StoredMessages(conversation_contexts, v)]_vars

\* C13 witness: a call on a full context has dropped the oldest entry; the
\* ten entries left are in the order of their timestamps and the newest is
\* the entry of the call
C13_Witness ==
    /\ last.op = "update_conversation_context"
    /\ ~last.raised
    /\ LET stored == StoredMessages(conversation_contexts, last.user)
       IN  /\ Len(stored) = MaxMessages
           /\ stored[1].timestamp = 2
           /\ stored[MaxMessages].timestamp = now - 1
           /\ stored[MaxMessages].user = last.args[2]
           /\ \A i \in 1..(MaxMessages - 1) :
                 stored[i].timestamp < stored[i + 1].timestamp

(***************************************************************************)
(* Claims about the reply engine                                           *)
(***************************************************************************)
\* the chat requests
ChatOps == {"POST /api/v1/chat", "POST /chat", "app POST /chat"}

\* the last step was a chat request that called generate_reply
Generated == last.op \in ChatOps /\ last.args.called

\* the message the last chat request handed to generate_reply
GeneratedFor(done) ==
    IF done.op = "app POST /chat" THEN Strip(done.args.message) ELSE done.args.message

\* the store writes that follow the computation of the reply
LateWrites == {"track_emotion", "update_conversation_context", "learn_preference"}

\* C5: whatever step of generate_reply fails, what it returns carries the
\* reply text and every field its callers read, and no caller ends in an
\* unhandled error.
C5_EveryPathEndsInAReply ==
    Generated =>
        /\ HasChatFields(reply)
        /\ HasV2Fields(reply)
        /\ HasHybridFields(reply)
        /\ http_response.status = 200
        /\ ~last.raised

\* C6: when a store write that follows the computation of the reply fails,
\* generate_reply returns the reply text the same request gets without the
\* failure.
C6_LateWriteFailureKeepsReply ==
    [][(requests' # requests /\ last'.args.called /\ last'.args.fault \in LateWrites)
         => reply'.message
              = generate_reply(GeneratedFor(last'), last'.user, last'.args.classifier,
                               last'.args.backend, "none",
                               last'.args.pick).reply.message]_vars

\* C7: a chat request with an empty or whitespace-only message that passes
\* the request validation is answered with the canned prompt for input and
\* changes nothing in the store, on every entry path.
C7_BlankMessageLeavesStoreUntouched ==
    [][(/\ requests' # requests
        /\ Strip(last'.args.message) = ""
        /\ http_response'.status # 422)
         => /\ UNCHANGED store
            /\ ~last'.args.called
            /\ http_response'.status = 200
            /\ http_response'.body.response = hybrid_prompt_for_input]_vars

\* the four handlers that ask the generation backend
BackendStrategies == {"emotional_support", "knowledge_focused", "hybrid", "casual_chat"}

\* C8: when the generation backend is down, times out or errors during the
\* request, the reply of each of the four handlers reports the model used as
\* "fallback".
C8_BackendFailureReportsFallback ==
    (/\ Generated
     /\ last.args.fault = "none"
     /\ last.args.backend.status # "ok"
     /\ reply.strategy \in BackendStrategies)
        => reply.metadata.model_used = "fallback"

\* a keyword pre-check of detect_emotion decides the emotion of this text
\* before the classifier is asked
PreChecked(text) ==
    LET text_lower == Strip(Lower(text))
    IN  \/ ContainsAny(text_lower, practical_neutral_patterns)
        \/ ContainsAny(text_lower, frustration_patterns)
        \/ ContainsAny(text_lower, fear_patterns)
        \/ ContainsAny(text_lower, casual_states)
        \/ ContainsAny(text_lower, positive_request_patterns)
        \/ ContainsAny(text_lower, detect_question_patterns)
        \/ text_lower \in detect_neutral_patterns
        \/ /\ ContainsAny(text_lower, detect_neutral_patterns)
           /\ Len(text_lower) <= MaxNeutralLen
        \/ ContainsAny(text_lower, thanks_words)

\* neutral at confidence 0.5
NeutralAtHalf(emotion) == emotion.primary = "neutral" /\ emotion.confidence = Frac(50, 100)

SameEmotion(emotion, result) ==
    emotion.primary = result.primary /\ emotion.confidence = result.confidence

C10_TableHitAnswersFromTable ==
    (/\ Generated
     /\ last.args.fault = "none"
     /\ reply.strategy = "knowledge_focused"
     /\ SimpleFact[GeneratedFor(last)] # None)
        => /\ StartsWith(reply.message, SimpleFact[GeneratedFor(last)])
           /\ generation_calls = 0

\* C11: within one generate_reply call at most one generation request is
\* sent to the backend.
C11_AtMostOneGeneration ==
    Generated => generation_calls <= 1

(***************************************************************************)
(* Claims about the strategy router                                        *)
(***************************************************************************)
\* a message was classified and its strategy determined
Routes == last.op = "_determine_strategy"

TotalMessages(profiles, u) ==
    IF \E r \in profiles : r.user_id = u
    THEN (CHOOSE r \in profiles : r.user_id = u).total_messages
    ELSE 0

\* C14: every completed turn of generate_reply for a user updates the usage
\* statistics of that user's profile: the message count grows with the turn.
C14_TurnUpdatesProfileStats ==
    [][(/\ requests' # requests
        /\ last'.args.called
        /\ last'.args.fault = "none"
        /\ reply'.strategy \in BackendStrategies)
         => TotalMessages(user_profiles', last'.user)
                > TotalMessages(user_profiles, last'.user)]_vars

\* Python: len(text.split('. ')), the sentences the personality adapter counts
Sentences(text) ==
    Cardinality({i \in 1..(Len(text) - 1) : SubSeq(text, i, i + 1) = ". "}) + 1

\* the user of the request had a profile of low verbosity when it arrived
LowVerbosityProfile(profiles, u) ==
    \E r \in profiles : r.user_id = u /\ r.verbosity_level < LowVerbosity

\* C15: for a user whose profile has low verbosity, the text the personality
\* adapter gives to the reply has at most 2 sentences, whatever the
\* proactiveness and emoji settings of the profile.
C15_LowVerbosityAtMostTwoSentences ==
    [][(/\ requests' # requests
        /\ last'.args.called
        /\ last'.args.fault = "none"
        /\ reply'.strategy \in BackendStrategies
        /\ LowVerbosityProfile(user_profiles, last'.user))
         => Sentences(reply'.text) <= 2]_vars

(***************************************************************************)
(* Claims about the rules of the strategy router                           *)
(***************************************************************************)
\* the emotion result the router was given, as the reply carries it
RoutedResult ==
    [context |-> reply.context, primary |-> reply.emotion.primary,
     confidence |-> reply.emotion.confidence, is_emotional |-> reply.is_emotional]

\* the message has a distress keyword and its emotion is sadness, fear or anger
Distressed ==
    /\ Routes
    /\ HasDistressKeyword(last.args.message)
    /\ reply.emotion.primary \in negative_emotions

\* C16 as stated: a message with a distress keyword whose emotion is sadness,
\* fear or anger is routed to emotional support whatever its context tag is,
\* before any routing by context.
C16_DistressAlwaysSupported ==
    Distressed => reply.strategy = "emotional_support"

\* C16, amended: a message with a distress keyword whose emotion is sadness,
\* fear or anger is routed to emotional support unless an earlier rule
\* decides it: context clarification, gratitude, casual conversation or a
\* greeting of at most five words (casual chat), context emotional learning
\* or an emotional-learning phrase in an emotional message (hybrid), a
\* knowledge-request phrase or a question prefix (knowledge-focused).  The
\* rule comes before the rule that routes the contexts practical request and
\* question to knowledge-focused.
C16_DistressSupportedAfterEarlyRules ==
    Distressed
        => /\ EarlyStrategy(last.args.message, RoutedResult) = None
                => reply.strategy = "emotional_support"
           /\ reply.context \in {"clarification", "gratitude", "casual_conversation"}
                => reply.strategy = "casual_chat"
           /\ (reply.context = "greeting"
                 /\ WordCount(last.args.message) <= MaxGreetingWords)
                => reply.strategy = "casual_chat"
           /\ reply.context = "emotional_learning" => reply.strategy = "hybrid"
           /\ (/\ reply.context \in {"practical_request", "question",
                                     "emotional_expression"}
               /\ ContainsAny(Lower(last.args.message), knowledge_requests)
               /\ ~(/\ ContainsAny(Lower(last.args.message),
                                   emotional_learning_patterns)
                    /\ reply.is_emotional))
                => reply.strategy = "knowledge_focused"

\* C16 witness: a question with a distress keyword, found fearful at 0.45, is
\* routed to emotional support and not, by its context, to knowledge-focused
C16_Witness ==
    /\ Distressed
    /\ last.args.message = "why am I so lonely"
    /\ reply.context = "question"
    /\ reply.emotion.primary = "fear"
    /\ reply.emotion.confidence = Frac(45, 100)
    /\ EarlyStrategy(last.args.message, RoutedResult) = None
    /\ reply.strategy = "emotional_support"

\* C17 as stated: a message that no earlier router rule decides, with a
\* confidence above 0.5, an emotion of sadness, fear or anger and a context
\* other than clarification, is routed to emotional support.
C17_AboveHalfSupported ==
    (/\ Routes
     /\ EarlyStrategy(last.args.message, RoutedResult) = None
     /\ FracLess(Frac(50, 100), reply.emotion.confidence)
     /\ reply.emotion.primary \in negative_emotions
     /\ reply.context # "clarification")
        => reply.strategy = "emotional_support"

\* C17, amended: such a message is routed to emotional support when its
\* confidence is above 0.6, the level from which the result is marked
\* emotional; between 0.5 and 0.6 it is routed to emotional support only if
\* it holds a distress keyword, and else by its context.
C17_AboveSixTenthsSupported ==
    (/\ Routes
     /\ EarlyStrategy(last.args.message, RoutedResult) = None
     /\ reply.emotion.primary \in negative_emotions
     /\ reply.context # "clarification")
        => /\ FracLess(Frac(60, 100), reply.emotion.confidence)
                => reply.strategy = "emotional_support"
           /\ (/\ ~FracLess(Frac(60, 100), reply.emotion.confidence)
               /\ ~HasDistressKeyword(last.args.message))
                => /\ reply.strategy # "emotional_support"
                   /\ reply.strategy
                        = IF reply.context \in {"practical_request", "question"}
                          THEN "knowledge_focused" ELSE "casual_chat"

\* C17 witness: anger at 0.75 in a question without a distress keyword
C17_Witness ==
    /\ Routes
    /\ last.args.message = "when will this week end"
    /\ EarlyStrategy(last.args.message, RoutedResult) = None
    /\ ~HasDistressKeyword(last.args.message)
    /\ reply.context = "question"
    /\ reply.emotion.primary = "anger"
    /\ reply.emotion.confidence = Frac(75, 100)
    /\ reply.strategy = "emotional_support"

\* one of the two rules of emotional support decides the message
SupportRuleApplies ==
    /\ reply.emotion.primary \in negative_emotions
    /\ reply.context # "clarification"
    /\ \/ HasDistressKeyword(last.args.message)
       \/ reply.is_emotional /\ FracLess(Frac(50, 100), reply.emotion.confidence)

\* C20: a message with context practical request or question that no
\* earlier router rule decides is routed to knowledge-focused, also when its
\* emotion is sadness, fear or anger: without a distress keyword and at a
\* confidence of 0.6 or less it gets a factual answer, not emotional support.
C20_PracticalQuestionGetsKnowledge ==
    (/\ Routes
     /\ reply.context \in {"practical_request", "question"}
     /\ EarlyStrategy(last.args.message, RoutedResult) = None)
        => /\ ~SupportRuleApplies => reply.strategy = "knowledge_focused"
           /\ (/\ reply.emotion.primary \in negative_emotions
               /\ ~HasDistressKeyword(last.args.message)
               /\ ~FracLess(Frac(60, 100), reply.emotion.confidence))
                => reply.strategy = "knowledge_focused"

\* C20 witness: a practical request without a distress keyword, found sad at
\* 0.55, is routed to knowledge-focused
C20_Witness ==
    /\ Routes
    /\ last.args.message = "I need to send this today"
    /\ reply.context = "practical_request"
    /\ EarlyStrategy(last.args.message, RoutedResult) = None
    /\ ~HasDistressKeyword(last.args.message)
    /\ reply.emotion.primary = "sadness"
    /\ reply.emotion.confidence = Frac(55, 100)
    /\ reply.strategy = "knowledge_focused"

(***************************************************************************)
(* Claims about the emotional-support handler                              *)
(***************************************************************************)
\* the texts of the support templates: fallback_templates, per emotion and
\* intensity level, and the templates for any other emotion
SupportTemplates ==
    UNION { {fallback_templates[e][l][i] : i \in 1..Len(fallback_templates[e][l])} :
              e \in DOMAIN fallback_templates, l \in {"high", "medium", "low"} }
      \cup {default_support_templates[i] : i \in 1..Len(default_support_templates)}

\* C18: when the generation backend fails while the emotional-support
\* handler serves a message, the text of the reply is a text of the support
\* template table, as the personality adapter gives it for the user's profile.
C18_BackendFailureUsesSupportTemplate ==
    (/\ Generated
     /\ last.args.fault = "none"
     /\ last.args.backend.status # "ok"
     /\ reply.strategy = "emotional_support")
        => \E t \in SupportTemplates, r \in user_profiles :
              /\ r.user_id = last.user
              /\ reply.text = EnhancedText([text |-> t], r, last.args.pick)

(***************************************************************************)
(* Claims about interleaved store calls                                    *)
(***************************************************************************)
\* the row a call has loaded was saved by another call since
Stale(call) ==
    IF call.pc = "update_conversation_context"
    THEN get_conversation_context(conversation_contexts, call.user) # call.loaded
    ELSE IF call.pc = "track_emotion"
    THEN get_emotional_pattern(emotional_patterns, call.user, call.args[1])
            # call.loaded
    ELSE FALSE

\* the elements of a sequence
Elements(q) == {q[i] : i \in 1..Len(q)}

\* frequency of the pattern row of (u, emotion), 0 while there is none
Frequency(patterns, u, emotion) ==
    IF get_emotional_pattern(patterns, u, emotion) = NoRow THEN 0
    ELSE get_emotional_pattern(patterns, u, emotion).frequency

\* C19: nothing locks the rows of a user, so when a call of
\* update_conversation_context or track_emotion saves a row that another call
\* for the same user has saved since the first one loaded it, the stored
\* state reflects only the saving call: the message pairs appended in
\* between are gone, or the frequency is the loaded one plus one, whatever
\* was added in between, and stays below the number of calls that returned.
C19_InterleavedSaveLosesUpdate ==
    [][\A server \in Servers :
          (/\ in_flight[server].pc # "idle"
           /\ in_flight'[server].pc = "idle"
           /\ ~last'.raised
           /\ Stale(in_flight[server]))
            => LET call == in_flight[server]
                   u == call.user
               IN  IF call.pc = "update_conversation_context"
                   THEN LET loaded == IF call.loaded = NoRow THEN <<>>
                                      ELSE call.loaded.messages
                            stored == StoredMessages(conversation_contexts, u)
                            saved == StoredMessages(conversation_contexts', u)
                        IN  /\ Len(saved) = Min(Len(loaded) + 1, MaxMessages)
                            /\ Elements(stored) \ Elements(loaded) # {}
                            /\ (Elements(stored) \ Elements(loaded))
                                  \cap Elements(saved) = {}
                   ELSE /\ Frequency(emotional_patterns', u, call.args[1])
                              = Frequency({call.loaded} \ {NoRow}, u, call.args[1]) + 1
                        /\ Len(track_history'[u][call.args[1]])
                              > Frequency(emotional_patterns', u, call.args[1])]_vars

\* C19 witness: each process has returned from one update_conversation_context
\* call for u1 and one message pair is stored; two track_emotion calls for
\* (u1, joy) have returned and the frequency is 1
C19_Witness ==
    /\ \A server \in Servers : in_flight[server] = Idle(1)
    /\ Len(StoredMessages(conversation_contexts, "u1")) = 1
    /\ Len(Tracked("u1", "joy")) = 2
    /\ Frequency(emotional_patterns, "u1", "joy") = 1

(***************************************************************************)
(* Claims about the emotion detector                                       *)
(***************************************************************************)
\* detect_emotion has run on a text
Detects == last.op = "detect_emotion"

\* the classifier ran (the ONNX session, or the PyTorch model when the ONNX
\* session is not in use) and its label is the given one
ClassifierLabel(label) ==
    /\ Detects
    /\ ~ClassifierFailed(last.args.classifier)
    /\ last.args.classifier.result.primary = label

\* _post_process_emotion: has_victim_context
HasVictimContext(text) == ContainsAny(Strip(Lower(text)), victim_keywords)

\* C21: whenever the classifier's label is anger and the text contains a
\* victim or unfair-treatment keyword, the emotion detect_emotion returns is
\* sadness, whichever detection path produced it.
C21_AngerOfVictimIsSadness ==
    (ClassifierLabel("anger") /\ HasVictimContext(last.args.text))
        => reply.emotion.primary = "sadness"

\* the result the ONNX session gave, which detect_emotion hands to
\* _post_process_emotion when no keyword pre-check decides the text
GivenToCorrector == onnx_detect_emotion(last.args.classifier)

\* _post_process_emotion was given label neutral below 0.7 and a text with a
\* joy indicator, and the fear rule before the joy rule does not apply (the
\* victim rule only applies to anger)
NeutralWithJoy ==
    /\ Detects
    /\ last.args.classifier.use_onnx
    /\ ~PreChecked(last.args.text)
    /\ GivenToCorrector.primary = "neutral"
    /\ FracLess(GivenToCorrector.confidence, Frac(70, 100))
    /\ ContainsAny(Strip(Lower(last.args.text)), joy_indicators)
    /\ ~(/\ ContainsAny(Strip(Lower(last.args.text)), fear_indicators)
         /\ WordCount(Strip(Lower(last.args.text))) > 3)

\* joy at confidence 0.80
JoyAtEightTenths(emotion) == emotion.primary = "joy" /\ emotion.confidence = Frac(80, 100)

\* _post_process_emotion: the text is too short to be corrected
TooShortToCorrect(text, result) ==
    WordCount(Strip(text)) <= 2 /\ FracLess(Frac(30, 100), result.confidence)

\* C22 as stated: label neutral below 0.7, a joy indicator in the text and no
\* earlier correction rule give joy at 0.80, for messages of any length.
C22_NeutralWithJoyIsJoy ==
    NeutralWithJoy => JoyAtEightTenths(reply.emotion)

\* C22, amended: label neutral below 0.7, a joy indicator in the text and no
\* earlier correction rule give joy at 0.80 when the text has more than two
\* words or the confidence is at most 0.3; a text of at most two words with a
\* confidence above 0.3 keeps the classifier's result.
C22_NeutralWithJoyIsJoyUnlessShort ==
    NeutralWithJoy
        => IF TooShortToCorrect(last.args.text, GivenToCorrector)
           THEN reply.emotion = GivenToCorrector
           ELSE JoyAtEightTenths(reply.emotion)

\* C22 witness: a text of six words with "great", found neutral at 0.55, comes
\* back as joy at 0.80
C22_Witness ==
    /\ NeutralWithJoy
    /\ last.args.text = "I feel great about this result"
    /\ GivenToCorrector.confidence = Frac(55, 100)
    /\ ~TooShortToCorrect(last.args.text, GivenToCorrector)
    /\ JoyAtEightTenths(reply.emotion)

(***************************************************************************)
(* Claims about the context classifier                                     *)
(***************************************************************************)
\* C23: a message that _detect_context tags greeting has at most 5 words; a
\* longer message with a greeting word gets the tag of a later rule.
C23_GreetingTagOnlyForShortMessages ==
    (Routes /\ reply.context = "greeting")
        => WordCount(last.args.message) <= MaxGreetingWords

(***************************************************************************)
(* Claims about a long conversation                                        *)
(***************************************************************************)
\* no entry of the sequence occurs twice
NoDuplicates(q) == \A i, j \in 1..Len(q) : q[i] = q[j] => i = j

\* C24: after any sequence of update_conversation_context calls, the stored
\* topics hold at most 15 entries, none of them twice, and the stored emotion
\* trajectory holds at most 20 entries.
C24_TopicsAndTrajectoryBounded ==
    \A context \in conversation_contexts :
        /\ Len(context.topics) <= MaxTopics
        /\ NoDuplicates(context.topics)
        /\ Len(context.emotion_trajectory) <= MaxTrajectory

\* C24 witness: after the four messages with five topics each and 22 fearful
\* messages, the topics are the last 15 of the 24 seen ("safari" is kept, the
\* "lions" of the same message are not) and the trajectory is the last 20 of
\* at least 22 emotions
C24_Witness ==
    /\ last.op = "update_conversation_context"
    /\ now = MaxTrajectoryOps
    /\ \E context \in ContextRows("u1") :
          /\ context.topics
                = <<"safari", "piano", "violin", "guitar", "drums", "flute", "mango",
                    "papaya", "cherry", "banana", "grapes", "feel", "anxious", "about",
                    "exams">>
          /\ Len(context.emotion_trajectory) = MaxTrajectory
          /\ \A i \in 1..MaxTrajectory : context.emotion_trajectory[i] = "fear"

(***************************************************************************)
(* Claims about the triggers of a pattern                                  *)
(***************************************************************************)
\* C25: after any sequence of track_emotion calls, the triggers of every
\* stored EmotionalPattern hold at most 10 entries and no keyword twice.
C25_TriggersBoundedAndDistinct ==
    \A pattern \in emotional_patterns :
        /\ Len(pattern.triggers) <= MaxTriggers
        /\ NoDuplicates(pattern.triggers)

\* C25 witness: three calls for (u1, joy) brought 4, 5 and 5 new keywords;
\* the pattern holds the first 10 of the 14
C25_Witness ==
    /\ last.op = "track_emotion"
    /\ \E pattern \in PatternRows("u1", "joy") :
          /\ pattern.frequency = 3
          /\ pattern.triggers
                = <<"exams", "make", "nervous", "again", "roses", "tulips", "daisies",
                    "orchids", "garden", "lions">>

\* C30: once an EmotionalPattern holds 10 triggers, no later track_emotion
\* call changes them: the keywords it brings are discarded, the first 10 stay.
C30_FullTriggersNeverChange ==
    [][\A pattern \in emotional_patterns :
          Len(pattern.triggers) = MaxTriggers
              => \E later \in emotional_patterns' :
                    /\ later.user_id = pattern.user_id
                    /\ later.emotion = pattern.emotion
                    /\ later.triggers = pattern.triggers]_vars

\* C30 witness: the pattern of (u1, joy) held the 10 keywords of two contexts
\* when a third call brought five other keywords; it holds the same 10
C30_Witness ==
    /\ last.op = "track_emotion"
    /\ last.args = <<"joy", TriggerIntensity,
                     "he has a piano, violin, guitar, drums and flute">>
    /\ \E pattern \in PatternRows("u1", "joy") :
          /\ pattern.frequency = 3
          /\ pattern.triggers
                = <<"roses", "tulips", "daisies", "orchids", "garden", "lions",
                    "zebras", "giraffes", "hippos", "safari">>

(***************************************************************************)
(* Claims about the learned preferences                                    *)
(***************************************************************************)
\* learn_preference found an interest or a dislike in the message and returned
\* the memory it stored
LearnedSubject ==
    /\ last.op = "learn_preference"
    /\ ~last.raised
    /\ MatchedPreference[last.args].k # 0
    /\ preference_patterns[MatchedPreference[last.args].k].pref_type
          \in {"interest", "dislike"}

\* the list of the profile that the pattern names: interests or dislikes
SubjectsOf(profile, pref_type) ==
    IF pref_type = "interest" THEN profile.interests ELSE profile.dislikes

\* C26: when learn_preference detects an interest or a dislike, the subject
\* extracted from the message is in the interests (or dislikes) of the stored
\* profile, which a later get_or_create_profile returns.
C26_LearnedSubjectIsStored ==
    LearnedSubject
        => \E profile \in ProfileRows(last.user) :
              SeqContains(SubjectsOf(profile,
                              preference_patterns[MatchedPreference[last.args].k].pref_type),
                          Extracted(Lower(last.args),
                                    preference_patterns[MatchedPreference[last.args].k]))

(***************************************************************************)
(* Claims about the first requests of a user                               *)
(***************************************************************************)
\* C27: when two get_or_create_profile calls for a user without a profile
\* run at the same time, each returns a profile without raising, and the
\* user has exactly one profile row afterwards.
C27_ConcurrentCreationSucceeds ==
    last.op = "get_or_create_profile"
        => /\ ~last.raised
           /\ Cardinality(ProfileRows(last.user)) = 1

(***************************************************************************)
(* Claims about the values of the strategy router                          *)
(***************************************************************************)
\* C28: for every message and every emotion result the router returns
\* emotional support, knowledge-focused, hybrid or casual chat, the four
\* strategies generate_reply has a handler for; it never returns a value
\* that would select the static default handler.
C28_RouterReturnsOneOfFour ==
    Routes => reply.strategy \in BackendStrategies

\* C28 witness: a message that no rule of the router decides (an emotional
\* expression found neutral at 0.55) ends in the last return, casual chat
C28_Witness ==
    /\ Routes
    /\ last.args.message = "my day went badly again"
    /\ reply.context = "emotional_expression"
    /\ reply.emotion.primary = "neutral"
    /\ EarlyStrategy(last.args.message, RoutedResult) = None
    /\ reply.strategy = "casual_chat"
\* the message takes one of the two paths the router calls emotional
\* learning: the context emotional learning, or an emotional-learning phrase
\* in an emotional message
EmotionalLearningPath ==
    \/ reply.context = "emotional_learning"
    \/ /\ ContainsAny(Lower(last.args.message), emotional_learning_patterns)
       /\ reply.is_emotional

\* the message is a knowledge request made in joy with a word of learning
JoyfulLearningRequest ==
    /\ \/ ContainsAny(Lower(last.args.message), knowledge_requests)
       \/ StartsWithAny(Lower(last.args.message), question_starts)
    /\ reply.emotion.primary = "joy"
    /\ ContainsAny(Lower(last.args.message), joyful_learning_words)

\* a message whose context is question or practical request is decided by an
\* earlier rule, by a rule of emotional support, or by the knowledge-focused
\* rule of the context, never by the two rules after it
DecidedBeforeLateRules ==
    reply.context \in {"question", "practical_request"}
        => reply.strategy
             = IF EarlyStrategy(last.args.message, RoutedResult) # None
               THEN EarlyStrategy(last.args.message, RoutedResult)
               ELSE IF SupportRuleApplies THEN "emotional_support"
               ELSE "knowledge_focused"

\* C29 as stated: a message whose context is question or practical request is
\* decided by the knowledge-focused rule of the context or an earlier rule, so
\* the two rules after it never fire, and hybrid is returned on the
\* emotional-learning paths only.
C29_HybridOnlyByEmotionalLearning ==
    Routes
        => /\ DecidedBeforeLateRules
           /\ reply.strategy = "hybrid" => EmotionalLearningPath

\* C29, amended: a message whose context is question or practical request is
\* decided by the knowledge-focused rule of the context or an earlier rule, so
\* the two rules after it never fire; hybrid is returned on the
\* emotional-learning paths and for a knowledge request made in joy with a
\* word of learning, and on no other path.
C29_LateQuestionRulesNeverFire ==
    Routes
        => /\ DecidedBeforeLateRules
           /\ reply.strategy = "hybrid"
                => EmotionalLearningPath \/ JoyfulLearningRequest

\* C29 witness: a question that asks to be shown something, found joyful, with
\* the word "learn" and no emotional-learning phrase, is answered hybrid by
\* the rule of the knowledge requests
C29_Witness ==
    /\ Routes
    /\ last.args.message = "please show me how to learn chess"
    /\ reply.context = "question"
    /\ reply.emotion.primary = "joy"
    /\ ~EmotionalLearningPath
    /\ JoyfulLearningRequest
    /\ reply.strategy = "hybrid"

====
